---- MODULE Spec2Model ----
(***************************************************************************)
(* Dimensional fact query and analysis engine (XBRL facts API).            *)
(* The store is the Fact collection filled by the import script; the       *)
(* handlers of api/routes read it through find / sort / skip / limit.      *)
(***************************************************************************)
EXTENDS Integers, Sequences, FiniteSets, TLC

VARIABLES
    facts,      \* Fact collection, in storage (insertion) order
    concepts,   \* Concept collection
    labels,     \* Label collection
    entities,   \* Entity collection (derived)
    reports,    \* Report collection (derived)
    imports,    \* number of import runs so far
    cur,        \* a client walking /api/facts/cursor with direction=next
    off,        \* a client walking /api/facts page by page
    resp,       \* response of the last finance / search request
    agg,        \* history of the derivation passes run since the last import
    db,         \* the API process holds a database handle (config/database.ts)
    passes,     \* the derivation passes of import processes running side by side
    connects    \* the calls of connectToDatabase in flight and the clients opened

vars ==
    <<facts, concepts, labels, entities, reports, imports, cur, off, resp, agg, db,
      passes, connects>>

(***************************************************************************)
(* Bounds of the model.                                                    *)
(***************************************************************************)
MaxImports == 2
MaxRequests == 22
MaxAggRuns == 3
MaxStrLen == 3

-----------------------------------------------------------------------------
(***************************************************************************)
(* Strings.  TLC evaluates Len and SubSeq on strings; characters are       *)
(* one-character strings.  Alphabet lists the characters the model uses in *)
(* code-unit order, so that the index of a character orders it as the      *)
(* binary string comparison of the store and of JavaScript does.           *)
(***************************************************************************)
Alphabet == "-./0123456789:ABCDEFGHIJKLMNOPQRSTUVWXYZ_abcdefghijklmnopqrstuvwxyz"
Uppers == "ABCDEFGHIJKLMNOPQRSTUVWXYZ"
Lowers == "abcdefghijklmnopqrstuvwxyz"
Digits == "0123456789"

CharAt(s, i) == SubSeq(s, i, i)

IndexIn(c, str) ==
    IF \E i \in 1..Len(str) : CharAt(str, i) = c
    THEN CHOOSE i \in 1..Len(str) : CharAt(str, i) = c
    ELSE 0

\* the code-unit rank of every character of the alphabet
CodeTable == [c \in {CharAt(Alphabet, i) : i \in 1..Len(Alphabet)} |-> IndexIn(c, Alphabet)]

Code(c) == IF c \in DOMAIN CodeTable THEN CodeTable[c] ELSE 0

\* the lower-case letter of every upper-case letter
LowerTable == [c \in {CharAt(Uppers, i) : i \in 1..Len(Uppers)} |->
                  CharAt(Lowers, IndexIn(c, Uppers))]

LowerChar(c) == IF c \in DOMAIN LowerTable THEN LowerTable[c] ELSE c

\* s1 < s2 by code units, a proper prefix being smaller
RECURSIVE StrLessFrom(_, _, _)
StrLessFrom(a, b, i) ==
    IF i > Len(b) THEN FALSE
    ELSE IF i > Len(a) THEN TRUE
    ELSE IF CharAt(a, i) = CharAt(b, i) THEN StrLessFrom(a, b, i + 1)
    ELSE Code(CharAt(a, i)) < Code(CharAt(b, i))

StrLess(a, b) == StrLessFrom(a, b, 1)

StartsWith(s, p) == Len(s) >= Len(p) /\ SubSeq(s, 1, Len(p)) = p

\* String.prototype.substring(n)
Substring(s, n) == SubSeq(s, n + 1, Len(s))

\* String.prototype.includes for a one-character needle
Includes(s, c) == \E i \in 1..Len(s) : CharAt(s, i) = c

\* the { $regex: p, $options: "i" } constraint: the pattern is found somewhere
\* in the text; "." stands for any character, letters match in either case
RegexCharOK(pc, tc) == pc = "." \/ LowerChar(pc) = LowerChar(tc)

RegexAt(p, s, k) == \A i \in 1..Len(p) : RegexCharOK(CharAt(p, i), CharAt(s, k + i))

RegexI(p, s) == \E k \in 0..(Len(s) - Len(p)) : RegexAt(p, s, k)

-----------------------------------------------------------------------------
(***************************************************************************)
(* JavaScript numbers, as reduced fractions num/den with den >= 0.         *)
(* den = 0 holds the non-finite values: NaN (num = 0), +-Infinity.         *)
(***************************************************************************)
Abs(n) == IF n < 0 THEN -n ELSE n

RECURSIVE GCD(_, _)
GCD(a, b) == IF b = 0 THEN a ELSE GCD(b, a % b)

Frac(n, d) ==
    IF d = 0 THEN [num |-> IF n > 0 THEN 1 ELSE IF n < 0 THEN -1 ELSE 0, den |-> 0]
    ELSE LET g == GCD(Abs(n), Abs(d))
             s == IF d < 0 THEN -1 ELSE 1
         IN  [num |-> s * (n \div g), den |-> s * (d \div g)]

Num(n) == [num |-> n, den |-> 1]
NaN == [num |-> 0, den |-> 0]
IsNaN(x) == x.den = 0 /\ x.num = 0
IsInt(x) == x.den = 1

\* truthiness of a number: 0 and NaN are falsy
NumTruthy(x) == x.num # 0

NumDiv(x, y) ==
    IF IsNaN(x) \/ IsNaN(y) THEN NaN
    ELSE IF x.den = 0 /\ y.den = 0 THEN NaN
    ELSE Frac(x.num * (IF y.den = 0 THEN 0 ELSE y.den), x.den * y.num)

NumMul(x, y) ==
    IF IsNaN(x) \/ IsNaN(y) THEN NaN
    ELSE IF (x.den = 0 /\ y.num = 0) \/ (y.den = 0 /\ x.num = 0) THEN NaN
    ELSE Frac(x.num * y.num, x.den * y.den)

NumSub(x, y) ==
    IF x.den = 0 \/ y.den = 0 THEN NaN
    ELSE Frac(x.num * y.den - y.num * x.den, x.den * y.den)

\* x < y on finite numbers
NumLess(x, y) == x.num * y.den < y.num * x.den

\* Math.max / Math.min: NaN when an argument is NaN
MathMax(x, y) == IF IsNaN(x) \/ IsNaN(y) THEN NaN ELSE IF NumLess(x, y) THEN y ELSE x
MathMin(x, y) == IF IsNaN(x) \/ IsNaN(y) THEN NaN ELSE IF NumLess(y, x) THEN y ELSE x

\* Math.ceil
MathCeil(x) ==
    IF x.den = 0 THEN x
    ELSE Num(IF x.num % x.den = 0 THEN x.num \div x.den ELSE (x.num \div x.den) + 1)

DigitTable == [c \in {CharAt(Digits, i) : i \in 1..Len(Digits)} |-> IndexIn(c, Digits) - 1]

IsDigit(c) == c \in DOMAIN DigitTable
DigitVal(c) == DigitTable[c]

\* index of the last digit of the digit run that starts at i (i - 1 when none)
RECURSIVE DigitsEnd(_, _)
DigitsEnd(s, i) ==
    IF i <= Len(s) /\ IsDigit(CharAt(s, i)) THEN DigitsEnd(s, i + 1) ELSE i - 1

RECURSIVE DigitsValue(_, _, _)
DigitsValue(s, i, j) ==
    IF j < i THEN 0 ELSE 10 * DigitsValue(s, i, j - 1) + DigitVal(CharAt(s, j))

RECURSIVE Pow10(_)
Pow10(n) == IF n = 0 THEN 1 ELSE 10 * Pow10(n - 1)

SignLen(s) == IF Len(s) > 0 /\ CharAt(s, 1) \in {"-", "+"} THEN 1 ELSE 0
SignOf(s) == IF Len(s) > 0 /\ CharAt(s, 1) = "-" THEN -1 ELSE 1

\* parseInt(s): optional sign, then the leading digits; NaN without a digit
ParseInt(s) ==
    LET b == SignLen(s) + 1
        e == DigitsEnd(s, b)
    IN  IF e < b THEN NaN ELSE Num(SignOf(s) * DigitsValue(s, b, e))

\* parseFloat(s): optional sign, digits, optional "." and digits
ParseFloat(s) ==
    LET b  == SignLen(s) + 1
        e  == DigitsEnd(s, b)
        fb == e + 2
        fe == IF e + 1 <= Len(s) /\ CharAt(s, e + 1) = "." THEN DigitsEnd(s, fb) ELSE fb - 1
        nf == fe - fb + 1
    IN  IF e < b /\ nf <= 0 THEN NaN
        ELSE Frac(SignOf(s) * (DigitsValue(s, b, e) * Pow10(IF nf > 0 THEN nf ELSE 0)
                               + DigitsValue(s, fb, fe)),
                  Pow10(IF nf > 0 THEN nf ELSE 0))

-----------------------------------------------------------------------------
(***************************************************************************)
(* URL search parameters: an ordered list of <<key, value>> pairs.         *)
(***************************************************************************)
Null == "<null>"       \* JavaScript null / undefined, distinct from every text

RECURSIVE ParamGetFrom(_, _, _)
ParamGetFrom(params, key, i) ==
    IF i > Len(params) THEN Null
    ELSE IF params[i][1] = key THEN params[i][2]
    ELSE ParamGetFrom(params, key, i + 1)

\* URLSearchParams.get: the first value of the key, null when absent
ParamGet(params, key) == ParamGetFrom(params, key, 1)

\* a || b on an optional string: null and "" are falsy
OrElse(v, d) == IF v = Null \/ v = "" THEN d ELSE v
StrTruthy(v) == v # Null /\ v # ""

-----------------------------------------------------------------------------
(***************************************************************************)
(* Documents are functions from field names to values; a field that the    *)
(* document does not carry is outside its DOMAIN.                          *)
(***************************************************************************)
Has(doc, f) == f \in DOMAIN doc

\* String.prototype.split(sep) for a one-character separator
RECURSIVE SplitFrom(_, _, _, _)
SplitFrom(s, sep, start, i) ==
    IF i > Len(s) THEN <<SubSeq(s, start, Len(s))>>
    ELSE IF CharAt(s, i) = sep
         THEN <<SubSeq(s, start, i - 1)>> \o SplitFrom(s, sep, i + 1, i + 1)
         ELSE SplitFrom(s, sep, start, i + 1)

Split(s, sep) == SplitFrom(s, sep, 1, 1)

\* element i of a destructured array: undefined past the end
Part(parts, i) == IF i <= Len(parts) THEN parts[i] ELSE Null

\* Math.round
MathRound(x) ==
    IF x.den = 0 THEN x
    ELSE LET n == 2 * x.num + x.den
             d == 2 * x.den
         IN  Num(n \div d)

\* Math.pow(10, e) for an integer e
MathPow10(e) == IF e >= 0 THEN Num(Pow10(e)) ELSE Frac(1, Pow10(-e))

\* preprocessFacts, for one fact of the source file
PreprocessFact(fact) ==
    LET f1 == IF Has(fact, "decimals")
              THEN LET nv == ParseFloat(fact.value)
                       sc == MathPow10(fact.decimals)
                   IN  [numericValue |-> nv,
                        normalizedValue |-> NumDiv(MathRound(NumMul(nv, sc)), sc)] @@ fact
              ELSE fact
        per == f1.dimensions.period
        dur == Includes(per, "/")
        sp  == Split(per, "/")
        d2  == IF dur
               THEN [periodType |-> "duration", startDate |-> Part(sp, 1),
                     endDate |-> Part(sp, 2)] @@ f1.dimensions
               ELSE [periodType |-> "instant", pointDate |-> per] @@ f1.dimensions
        f2  == IF Has(f1.dimensions, "period") /\ StrTruthy(per)
               THEN [dimensions |-> d2] @@ f1
               ELSE f1
        rp  == Split(f2.reportId, "_")
    IN  IF Has(f2, "reportId") /\ StrTruthy(f2.reportId)
        THEN [reportEntity |-> Part(rp, 1), reportYear |-> Part(rp, 2),
              reportQuarter |-> Part(rp, 3)] @@ f2
        ELSE f2

PreprocessFacts(file) == [i \in 1..Len(file) |-> PreprocessFact(file[i])]

(***************************************************************************)
(* The document store: predicate-filtered scan, sort, skip, limit, count.  *)
(* A query maps a field path to one constraint; writing a path twice keeps *)
(* the last constraint, as assignment to an object key does.               *)
(***************************************************************************)
DimPrefix == "dimensions."

\* the value at a (possibly dotted) path; null when the document lacks it
FieldOf(doc, path) ==
    IF StartsWith(path, DimPrefix)
    THEN LET n == Substring(path, Len(DimPrefix))
         IN  IF Has(doc, "dimensions") /\ Has(doc.dimensions, n)
             THEN doc.dimensions[n] ELSE Null
    ELSE IF Has(doc, path) THEN doc[path] ELSE Null

Eq(v) == [op |-> "eq", v |-> v]
Regex(v) == [op |-> "regex", v |-> v]
In(S) == [op |-> "in", v |-> S]
Gt(v) == [op |-> "gt", v |-> v]
Lt(v) == [op |-> "lt", v |-> v]
Exists == [op |-> "exists", v |-> Null]

Satisfies(x, c) ==
    CASE c.op = "eq"     -> x = c.v
      [] c.op = "regex"  -> x # Null /\ RegexI(c.v, x)
      [] c.op = "in"     -> x \in c.v
      [] c.op = "gt"     -> x # Null /\ StrLess(c.v, x)
      [] c.op = "lt"     -> x # Null /\ StrLess(x, c.v)
      [] c.op = "exists" -> x # Null

Matches(doc, query) ==
    \A path \in DOMAIN query : Satisfies(FieldOf(doc, path), query[path])

\* query[path] = c
SetPath(query, path, c) == (path :> c) @@ query

EmptyQuery == [p \in {} |-> Exists]

\* collection.find(query).toArray(): the matching documents in storage order
Find(coll, query) == SelectSeq(coll, LAMBDA d : Matches(d, query))

\* collection.countDocuments(query)
CountDocuments(coll, query) == Len(Find(coll, query))

\* order of two field values in a sort: a missing value sorts first
ValueLess(a, b) ==
    IF a = Null THEN b # Null
    ELSE IF b = Null THEN FALSE
    ELSE StrLess(a, b)

\* doc goes before other in a sort on path with direction dir (1 or -1)
Before(doc, other, path, dir) ==
    IF dir = 1 THEN ValueLess(FieldOf(doc, path), FieldOf(other, path))
    ELSE ValueLess(FieldOf(other, path), FieldOf(doc, path))

\* insert doc after every document that does not sort after it
RECURSIVE InsertSorted(_, _, _, _)
InsertSorted(sorted, doc, path, dir) ==
    IF sorted = <<>> THEN <<doc>>
    ELSE IF Before(doc, sorted[1], path, dir) THEN <<doc>> \o sorted
    ELSE <<sorted[1]>> \o InsertSorted(Tail(sorted), doc, path, dir)

\* cursor.sort({path: dir}): documents with equal keys keep storage order
RECURSIVE SortBy(_, _, _)
SortBy(docs, path, dir) ==
    IF docs = <<>> THEN <<>>
    ELSE InsertSorted(SortBy(SubSeq(docs, 1, Len(docs) - 1), path, dir),
                      docs[Len(docs)], path, dir)

\* cursor.skip(n) / cursor.limit(n) for a natural n
Skip(docs, n) == SubSeq(docs, n + 1, Len(docs))
Limit(docs, n) == SubSeq(docs, 1, IF n < Len(docs) THEN n ELSE Len(docs))

\* Array.prototype.slice(0, n) for a natural n
Slice0(arr, n) == SubSeq(arr, 1, IF n < Len(arr) THEN n ELSE Len(arr))

-----------------------------------------------------------------------------
(***************************************************************************)
(* Source files of the import (all_facts.json).                            *)
(***************************************************************************)
RawFact(id, concept, entity, period, value, year, quarter, reportId) ==
    [factId |-> id, value |-> value,
     dimensions |-> [concept |-> concept, entity |-> entity, period |-> period,
                     unit |-> "iso4217:MXN"],
     year |-> year, quarter |-> quarter, reportId |-> reportId]

\* the fact with an extension dimension (axis |-> member) added
WithDim(fact, axis, member) ==
    [dimensions |-> (axis :> member) @@ fact.dimensions] @@ fact

\* the fact with a decimals attribute (a numeric fact)
WithDecimals(fact, d) == [decimals |-> d] @@ fact

Assets == "ifrs-full_Assets"
Equity == "ifrs-full_Equity"
Q1 == "2023-01-01/2023-03-31"
Q2 == "2023-04-01/2023-06-30"

TenIds == <<"F1", "F2", "F3", "F4", "F5", "F6", "F7", "F8", "F9", "F10">>

\* ten facts F1..F10 of one report
TenFile ==
    [i \in 1..10 |->
        RawFact(TenIds[i], IF i % 2 = 1 THEN Assets ELSE Equity, "scheme:ACME",
                IF i <= 5 THEN Q1 ELSE "2023-03-31", "100", "2023", "1", "ACME_2023_1")]

\* facts of two entities with extension dimensions
MixFile ==
    << WithDim(RawFact("A1", Assets, "scheme:Acme", "2023-03-31", "200", "2023", "1",
                       "ACME_2023_1"), "segment", "retail"),
       WithDim(RawFact("B2", Equity, "scheme:BETA", Q2, "150", "2023", "2",
                       "BETA_2023_2"), "segment", "retail"),
       RawFact("A3", Equity, "scheme:acme", Q2, "300", "2024", "2", "ACME_2024_2"),
       WithDim(RawFact("B4", Assets, "scheme:Beta", "2024-06-30", "0", "2024", "2",
                       "BETA_2024_2"), "segment", "wholesale") >>

ListFiles == {TenFile, MixFile}

\* the first five facts of the report, and the files the offset walks import
FiveFile == SubSeq(TenFile, 1, 5)

OffsetFiles == {FiveFile, MixFile}

(***************************************************************************)
(* importFacts: the preprocessed facts of the file are appended            *)
(* (insertMany); nothing is replaced.                                      *)
(***************************************************************************)
NoAgg == [eRuns |-> 0, eFirst |-> <<>>, rRuns |-> 0, rFirst |-> <<>>]

ImportFacts(file) ==
    /\ imports < MaxImports
    /\ facts' = facts \o PreprocessFacts(file)
    /\ imports' = imports + 1
    /\ cur' = [cur EXCEPT !.stable = FALSE]
    /\ off' = [off EXCEPT !.stable = FALSE]
    /\ agg' = NoAgg
    /\ resp' = [resp EXCEPT !.fresh = FALSE]
    /\ UNCHANGED <<passes, connects, db, concepts, labels, entities, reports>>

-----------------------------------------------------------------------------
(***************************************************************************)
(* GET /api/facts/cursor                                                   *)
(***************************************************************************)
\* the response of a failed store call (the error middleware of mod.ts)
InternalError == [status |-> 500, error |-> "Internal server error"]

\* cursor.limit(n): 0 sets no limit, a negative n limits to -n documents
StoreLimit(docs, n) == IF n = 0 THEN docs ELSE Limit(docs, Abs(n))

\* slice that keeps the extra row fetched to detect more pages
Slice_KeepExtra(arr, n) == Slice0(arr, n + 1)

\* Array.prototype.slice(0, n): a negative n counts from the end
Slice(arr, n) ==
    IF n >= 0 THEN Slice0(arr, n)
    ELSE Slice0(arr, IF Len(arr) + n > 0 THEN Len(arr) + n ELSE 0)

\* the key constraint is $gt for either direction
cursorPagination_AlwaysGt(params, coll, query, sortField, limit) ==
    LET cursor    == ParamGet(params, "cursor")
        direction == OrElse(ParamGet(params, "direction"), "next")
        cursorQuery ==
            IF StrTruthy(cursor)
            THEN SetPath(query, sortField, Gt(cursor))
            ELSE query
        dir     == IF direction = "next" THEN 1 ELSE -1
        results == StoreLimit(SortBy(Find(coll, cursorQuery), sortField, dir),
                              limit.num + 1)
        hasMore == Len(results) > limit.num
        data    == IF hasMore THEN Slice(results, limit.num) ELSE results
        nextCursor == IF Len(data) > 0 THEN FieldOf(data[Len(data)], sortField) ELSE Null
    IN  IF ~IsInt(limit) THEN InternalError
        ELSE [status |-> 200, data |-> data,
              pagination |-> [limit |-> limit, hasMore |-> hasMore,
                              nextCursor |-> nextCursor, direction |-> direction]]

\* cursorPagination(ctx, collection, query, sortField, limit)
cursorPagination(params, coll, query, sortField, limit) ==
    LET cursor    == ParamGet(params, "cursor")
        direction == OrElse(ParamGet(params, "direction"), "next")
        cursorQuery ==
            IF StrTruthy(cursor)
            THEN IF direction = "next"
                 THEN SetPath(query, sortField, Gt(cursor))
                 ELSE SetPath(query, sortField, Lt(cursor))
            ELSE query
        dir     == IF direction = "next" THEN 1 ELSE -1
        results == StoreLimit(SortBy(Find(coll, cursorQuery), sortField, dir),
                              limit.num + 1)
        hasMore == Len(results) > limit.num
        data    == IF hasMore THEN Slice(results, limit.num) ELSE results
        nextCursor == IF Len(data) > 0 THEN FieldOf(data[Len(data)], sortField) ELSE Null
    IN  IF ~IsInt(limit) THEN InternalError
        ELSE [status |-> 200, data |-> data,
              pagination |-> [limit |-> limit, hasMore |-> hasMore,
                              nextCursor |-> nextCursor, direction |-> direction]]

CursorReserved == {"cursor", "direction", "limit", "entity", "concept", "year", "quarter"}

\* the loop over url.searchParams.entries() of getFactsWithCursor
RECURSIVE CursorDimFilters(_, _, _)
CursorDimFilters(params, i, query) ==
    IF i > Len(params) THEN query
    ELSE LET key   == params[i][1]
             value == params[i][2]
         IN  IF key \in CursorReserved THEN CursorDimFilters(params, i + 1, query)
             ELSE IF StartsWith(key, "dim_")
                  THEN CursorDimFilters(params, i + 1,
                           SetPath(query, DimPrefix \o Substring(key, 4), Eq(value)))
                  ELSE CursorDimFilters(params, i + 1, query)

\* the query built by getFactsWithCursor
CursorQuery(params) ==
    LET entity  == ParamGet(params, "entity")
        concept == ParamGet(params, "concept")
        year    == ParamGet(params, "year")
        quarter == ParamGet(params, "quarter")
        q1 == IF StrTruthy(entity)
              THEN SetPath(EmptyQuery, "dimensions.entity", Regex(entity)) ELSE EmptyQuery
        q2 == IF StrTruthy(concept)
              THEN SetPath(q1, "dimensions.concept", Regex(concept)) ELSE q1
        q3 == IF StrTruthy(year) THEN SetPath(q2, "year", Eq(year)) ELSE q2
        q4 == IF StrTruthy(quarter) THEN SetPath(q3, "quarter", Eq(quarter)) ELSE q3
    IN  CursorDimFilters(params, 1, q4)

\* the handler hands no cursor and no direction to cursorPagination
getFactsWithCursor_NoCursor(params, coll) ==
    LET limit == ParseInt(OrElse(ParamGet(params, "limit"), "100"))
    IN  cursorPagination(<<>>, coll, CursorQuery(params), "factId", limit)

getFactsWithCursor(params, coll) ==
    LET limit == ParseInt(OrElse(ParamGet(params, "limit"), "100"))
    IN  cursorPagination(params, coll, CursorQuery(params), "factId", limit)

-----------------------------------------------------------------------------
(***************************************************************************)
(* A client of the cursor endpoint: it starts without a cursor and keeps   *)
(* asking for direction=next with the nextCursor of the previous response  *)
(* while the response says hasMore.                                        *)
(***************************************************************************)
NoWalk ==
    [running |-> FALSE, params |-> <<>>, cursor |-> Null, pages |-> <<>>,
     hasMore |-> FALSE, requests |-> 0, stable |-> FALSE, status |-> 0]

CursorLimits == {<<>>, <<<<"limit", "0">>>>, <<<<"limit", "1">>>>, <<<<"limit", "2">>>>,
                 <<<<"limit", "3">>>>}

CursorFilters ==
    { <<>>,
      << <<"entity", "acme">> >>,
      << <<"concept", "EQUITY">> >>,
      << <<"dim_segment", "retail">> >>,
      << <<"year", "2023">>, <<"quarter", "1">> >>,
      << <<"direction", "next">>, <<"entity", "beta">>, <<"foo", "bar">> >> }

CursorParamSets == {l \o f : l \in CursorLimits, f \in CursorFilters}

CursorStart(params) ==
    /\ cur' = [running |-> TRUE, params |-> params, cursor |-> Null, pages |-> <<>>,
               hasMore |-> TRUE, requests |-> 0, stable |-> TRUE, status |-> 0]
    /\ UNCHANGED <<passes, connects, db, concepts, facts, labels, entities, reports, imports, off, resp, agg>>

\* the request the client sends next
CursorRequestParams ==
    IF cur.cursor = Null THEN cur.params
    ELSE cur.params \o << <<"cursor", cur.cursor>> >>

CursorNext ==
    /\ cur.running
    /\ cur.hasMore
    /\ cur.requests < MaxRequests
    /\ LET r == getFactsWithCursor(CursorRequestParams, facts)
       IN  cur' = IF r.status = 200
                  THEN [cur EXCEPT !.pages = Append(@, r.data),
                                   !.cursor = r.pagination.nextCursor,
                                   !.hasMore = r.pagination.hasMore,
                                   !.requests = @ + 1,
                                   !.status = 200]
                  ELSE [cur EXCEPT !.running = FALSE, !.status = r.status]
    /\ db' = TRUE
    /\ UNCHANGED <<passes, connects, concepts, facts, labels, entities, reports, imports, off, resp, agg>>

NoPaging ==
    [running |-> FALSE, params |-> <<>>, nextPage |-> 1, pages |-> <<>>,
     lastPages |-> 0, total |-> 0, requests |-> 0, stable |-> FALSE, status |-> 0]

\* no derivation pass is running
NoPasses == <<>>

\* no call of connectToDatabase is in flight and no client was opened
NoConnects == [opened |-> 0, current |-> 0, callers |-> <<>>]

NoResp == [op |-> "none", status |-> 0, fresh |-> FALSE]

Init ==
    /\ facts = <<>>
    /\ concepts = <<>>
    /\ labels = <<>>
    /\ entities = <<>>
    /\ reports = <<>>
    /\ imports = 0
    /\ cur = NoWalk
    /\ off = NoPaging
    /\ resp = NoResp
    /\ agg = NoAgg
    /\ db = FALSE
    /\ passes = NoPasses
    /\ connects = NoConnects

NextCursor ==
    \/ \E file \in ListFiles : ImportFacts(file)
    \/ \E params \in CursorParamSets : CursorStart(params)
    \/ CursorNext

SpecCursor == Init /\ [][NextCursor]_vars

\* the pages of a walk, concatenated
RECURSIVE Flatten(_)
Flatten(pages) == IF pages = <<>> THEN <<>> ELSE pages[1] \o Flatten(Tail(pages))

Ids(docs) == [i \in 1..Len(docs) |-> docs[i].factId]

UniqueIds(coll) == \A i, j \in 1..Len(coll) : coll[i].factId = coll[j].factId => i = j

IsPrefix(a, b) == Len(a) <= Len(b) /\ SubSeq(b, 1, Len(a)) = a

\* the full filtered result set of the walk, in key order
CursorFull == SortBy(Find(facts, CursorQuery(cur.params)), "factId", 1)

CursorWalking == cur.running /\ cur.stable /\ UniqueIds(facts)

\* C1: a walk with direction=next from no cursor enumerates the full filtered
\* result set exactly once: what was returned so far is a duplicate-free
\* prefix of the set in key order, the walk is over (hasMore = false) after
\* at most one request per fact (one request for an empty set), and when it
\* is over everything was returned.
C1_EnumeratesOnce ==
    CursorWalking =>
        /\ IsPrefix(Flatten(cur.pages), CursorFull)
        /\ (cur.requests > 0 /\ ~cur.hasMore => Flatten(cur.pages) = CursorFull)
        /\ (cur.requests > Len(CursorFull) => ~cur.hasMore)

-----------------------------------------------------------------------------
(***************************************************************************)
(* The ten-fact example: F1..F10 imported once, walked with limit=3.       *)
(***************************************************************************)
TenWalk ==
    /\ cur.running /\ cur.stable
    /\ facts = PreprocessFacts(TenFile)
    /\ cur.params = << <<"limit", "3">> >>

NumericPages == << <<"F1", "F2", "F3">>, <<"F4", "F5", "F6">>, <<"F7", "F8", "F9">>, <<"F10">> >>
LexicalPages == << <<"F1", "F10", "F2">>, <<"F3", "F4", "F5">>, <<"F6", "F7", "F8">>, <<"F9">> >>

\* the pages received so far are the first pages of expected, and the cursor
\* handed back is the factId of the last fact of the last page
WalkFollows(expected) ==
    /\ Len(cur.pages) <= Len(expected)
    /\ \A k \in 1..Len(cur.pages) : Ids(cur.pages[k]) = expected[k]
    /\ cur.pages # <<>> =>
          LET last == cur.pages[Len(cur.pages)]
          IN  cur.cursor = last[Len(last)].factId

\* C3 as stated: the pages are [F1,F2,F3], [F4,F5,F6], [F7,F8,F9], [F10] and
\* each nextCursor is the factId of the last fact of its page.
C3_NumericPages == TenWalk => WalkFollows(NumericPages)

\* C3 amended: factId is ordered as a string, so F10 follows F1; the pages are
\* [F1,F10,F2], [F3,F4,F5], [F6,F7,F8], [F9], each nextCursor is the factId of
\* the last fact of its page, and only the fourth response has hasMore = false.
C3_LexicalPages ==
    TenWalk => /\ WalkFollows(LexicalPages)
               /\ (cur.requests > 0 => (cur.hasMore <=> Len(cur.pages) < 4))

C3_Witness == TenWalk /\ Len(cur.pages) = 4 /\ ~cur.hasMore

-----------------------------------------------------------------------------
(***************************************************************************)
(* GET /api/facts: withPagination(withSorting(handler))                    *)
(***************************************************************************)
MaxLimit == 500
DefaultLimit == "100"

RECURSIVE ToLowerCase(_)
ToLowerCase(s) ==
    IF Len(s) = 0 THEN s ELSE LowerChar(CharAt(s, 1)) \o ToLowerCase(Substring(s, 1))

\* pagination that skips page * limit rows
withPagination_SkipWholePages(params) ==
    LET page  == ParseInt(OrElse(ParamGet(params, "page"), "1"))
        limit == ParseInt(OrElse(ParamGet(params, "limit"), DefaultLimit))
    IN  [page  |-> MathMax(Num(1), page),
         limit |-> MathMin(Num(MaxLimit), MathMax(Num(1), limit)),
         skip  |-> NumMul(MathMax(Num(1), page),
                          MathMin(Num(MaxLimit), MathMax(Num(1), limit)))]

\* ctx.state.pagination
withPagination(params) ==
    LET page  == ParseInt(OrElse(ParamGet(params, "page"), "1"))
        limit == ParseInt(OrElse(ParamGet(params, "limit"), DefaultLimit))
    IN  [page  |-> MathMax(Num(1), page),
         limit |-> MathMin(Num(MaxLimit), MathMax(Num(1), limit)),
         skip  |-> NumMul(NumSub(MathMax(Num(1), page), Num(1)),
                          MathMin(Num(MaxLimit), MathMax(Num(1), limit)))]

\* ctx.state.sort
withSorting(params) ==
    LET order == ParamGet(params, "order")
    IN  [field |-> OrElse(ParamGet(params, "sort"), "dimensions.concept"),
         direction |-> IF order # Null /\ ToLowerCase(order) = "desc" THEN -1 ELSE 1]

FactsReserved == {"page", "limit", "sort", "order"}

\* a parameter the loop does not recognize becomes a constraint on the field
\* of its name
FactsFilterStep_KeepUnknown(query, key, value) ==
    IF key \in FactsReserved THEN query
    ELSE IF key = "entity" THEN SetPath(query, "dimensions.entity", Regex(value))
    ELSE IF key = "concept" THEN SetPath(query, "dimensions.concept", Regex(value))
    ELSE IF key = "period" THEN SetPath(query, "dimensions.period", Regex(value))
    ELSE IF key = "year" THEN SetPath(query, "year", Eq(value))
    ELSE IF key = "quarter" THEN SetPath(query, "quarter", Eq(value))
    ELSE IF key = "reportId" THEN SetPath(query, "reportId", Eq(value))
    ELSE IF StartsWith(key, "dim_")
         THEN SetPath(query, DimPrefix \o Substring(key, 4), Eq(value))
    ELSE SetPath(query, key, Eq(value))

\* one turn of the loop over url.searchParams.entries() of getFacts
FactsFilterStep(query, key, value) ==
    IF key \in FactsReserved THEN query
    ELSE IF key = "entity" THEN SetPath(query, "dimensions.entity", Regex(value))
    ELSE IF key = "concept" THEN SetPath(query, "dimensions.concept", Regex(value))
    ELSE IF key = "period" THEN SetPath(query, "dimensions.period", Regex(value))
    ELSE IF key = "year" THEN SetPath(query, "year", Eq(value))
    ELSE IF key = "quarter" THEN SetPath(query, "quarter", Eq(value))
    ELSE IF key = "reportId" THEN SetPath(query, "reportId", Eq(value))
    ELSE IF StartsWith(key, "dim_")
         THEN SetPath(query, DimPrefix \o Substring(key, 4), Eq(value))
    ELSE query

\* the loop over url.searchParams.entries() of getFacts
RECURSIVE FactsQueryFrom(_, _, _)
FactsQueryFrom(params, i, query) ==
    IF i > Len(params) THEN query
    ELSE FactsQueryFrom(params, i + 1, FactsFilterStep(query, params[i][1], params[i][2]))

FactsQuery(params) == FactsQueryFrom(params, 1, EmptyQuery)

getFacts(params, coll) ==
    LET pg    == withPagination(params)
        st    == withSorting(params)
        query == FactsQuery(params)
        found == Limit(Skip(SortBy(Find(coll, query), st.field, st.direction),
                            pg.skip.num), pg.limit.num)
        total == CountDocuments(coll, query)
    IN  IF ~IsInt(pg.limit) \/ ~IsInt(pg.skip) THEN InternalError
        ELSE [status |-> 200, data |-> found,
              pagination |-> [page |-> pg.page, limit |-> pg.limit, total |-> total,
                              pages |-> MathCeil(NumDiv(Num(total), pg.limit))],
              sort |-> [field |-> st.field,
                        order |-> IF st.direction = 1 THEN "asc" ELSE "desc"]]

(***************************************************************************)
(* A client of the offset endpoint: it asks for page 1, 2, ... up to the   *)
(* number of pages the responses report.                                   *)
(***************************************************************************)
RECURSIVE IntToStr(_)
IntToStr(n) ==
    IF n < 10 THEN CharAt(Digits, n + 1)
    ELSE IntToStr(n \div 10) \o CharAt(Digits, (n % 10) + 1)

OffsetParamSets ==
    { <<>>,
      << <<"limit", "0">> >>,
      << <<"limit", "1">>, <<"sort", "factId">> >>,
      << <<"limit", "2">> >>,
      << <<"limit", "3">>, <<"sort", "factId">>, <<"order", "DESC">> >>,
      << <<"limit", "501">>, <<"sort", "year">> >>,
      << <<"limit", "x">> >>,
      << <<"limit", "2">>, <<"entity", "acme">> >>,
      << <<"limit", "1">>, <<"entity", "scheme:b">>, <<"order", "desc">> >>,
      << <<"limit", "2">>, <<"concept", "EQUITY">> >>,
      << <<"limit", "3">>, <<"period", "2023-0.-">> >>,
      << <<"limit", "1">>, <<"year", "2023">>, <<"quarter", "1">> >>,
      << <<"limit", "2">>, <<"reportId", "ACME_2023_1">>, <<"foo", "bar">> >>,
      << <<"limit", "1">>, <<"dim_segment", "retail">> >>,
      << <<"dim_segment", "retail">>, <<"concept", "assets">> >>,
      << <<"limit", "2">>, <<"concept", "EQUITY">>, <<"dim_concept", "ifrs-full_Assets">> >>,
      << <<"dim_entity", "scheme:BETA">>, <<"entity", "acme">> >>,
      << <<"limit", "3">>, <<"year", "2023">>, <<"year", "2024">> >> }

OffsetStart(params) ==
    /\ off' = [running |-> TRUE, params |-> params, nextPage |-> 1, pages |-> <<>>,
               lastPages |-> 0, total |-> 0, requests |-> 0, stable |-> TRUE,
               status |-> 0]
    /\ UNCHANGED <<passes, connects, db, concepts, facts, labels, entities, reports, imports, cur, resp, agg>>

OffsetNext ==
    /\ off.running
    /\ off.requests = 0 \/ off.nextPage <= off.lastPages
    /\ off.requests < MaxRequests
    /\ LET r == getFacts(off.params \o << <<"page", IntToStr(off.nextPage)>> >>, facts)
       IN  off' = IF r.status = 200
                  THEN [off EXCEPT !.pages = Append(@, r.data),
                                   !.nextPage = @ + 1,
                                   !.lastPages = r.pagination.pages.num,
                                   !.total = r.pagination.total,
                                   !.requests = @ + 1,
                                   !.status = 200]
                  ELSE [off EXCEPT !.running = FALSE, !.status = r.status]
    /\ db' = TRUE
    /\ UNCHANGED <<passes, connects, concepts, facts, labels, entities, reports, imports, cur, resp, agg>>

NextOffset ==
    \/ \E file \in OffsetFiles : ImportFacts(file)
    \/ \E params \in OffsetParamSets : OffsetStart(params)
    \/ OffsetNext

SpecOffset == Init /\ [][NextOffset]_vars

OffsetWalking == off.running /\ off.stable /\ off.requests > 0
OffsetDone == OffsetWalking /\ off.nextPage > off.lastPages

\* the full unpaginated filtered result set, in the requested order
OffsetFull ==
    LET st == withSorting(off.params)
    IN  SortBy(Find(facts, FactsQuery(off.params)), st.field, st.direction)

-----------------------------------------------------------------------------
(***************************************************************************)
(* The reference filter of list facts: every supplied parameter is a       *)
(* constraint of its own, and a fact is selected when all of them hold.    *)
(***************************************************************************)
ParamHolds(doc, key, value) ==
    CASE key = "entity"   -> FieldOf(doc, "dimensions.entity") # Null
                             /\ RegexI(value, FieldOf(doc, "dimensions.entity"))
      [] key = "concept"  -> FieldOf(doc, "dimensions.concept") # Null
                             /\ RegexI(value, FieldOf(doc, "dimensions.concept"))
      [] key = "period"   -> FieldOf(doc, "dimensions.period") # Null
                             /\ RegexI(value, FieldOf(doc, "dimensions.period"))
      [] key = "year"     -> FieldOf(doc, "year") = value
      [] key = "quarter"  -> FieldOf(doc, "quarter") = value
      [] key = "reportId" -> FieldOf(doc, "reportId") = value
      [] OTHER -> StartsWith(key, "dim_") /\ key \notin FactsReserved
                    => FieldOf(doc, DimPrefix \o Substring(key, 4)) = value

AllParamsHold(doc, params) ==
    \A i \in 1..Len(params) : ParamHolds(doc, params[i][1], params[i][2])

ReferenceSelect(coll, params) == SelectSeq(coll, LAMBDA d : AllParamsHold(d, params))

SameDocs(a, b) ==
    /\ \A i \in 1..Len(a) : \E j \in 1..Len(b) : a[i] = b[j]
    /\ \A j \in 1..Len(b) : \E i \in 1..Len(a) : a[i] = b[j]

\* C4: the supplied constraints are ANDed: every fact that list facts returns
\* satisfies every recognized constraint of the request, also when two
\* parameters address the same field.
C4_ConstraintsAnded ==
    OffsetWalking =>
        \A k \in 1..Len(off.pages) : \A n \in 1..Len(off.pages[k]) :
            AllParamsHold(off.pages[k][n], off.params)

\* C5: the facts list facts selects are exactly those of the reference
\* filter: total counts them and the pages hold them.
C5_SelectsReference ==
    /\ OffsetWalking => off.total = Len(ReferenceSelect(facts, off.params))
    /\ OffsetDone => SameDocs(Flatten(off.pages), ReferenceSelect(facts, off.params))

\* no two parameters of the walk write the same field of the query
ParamPath(key) ==
    IF key \in {"entity", "concept", "period"} THEN DimPrefix \o key
    ELSE IF key \in {"year", "quarter", "reportId"} THEN key
    ELSE IF StartsWith(key, "dim_") THEN DimPrefix \o Substring(key, 4)
    ELSE Null

DistinctFields(params) ==
    \A i, j \in 1..Len(params) :
        (i # j /\ ParamPath(params[i][1]) # Null /\ params[i][1] \notin FactsReserved)
            => ParamPath(params[i][1]) # ParamPath(params[j][1])

-----------------------------------------------------------------------------
(***************************************************************************)
(* The derivation passes of the import script: extractEntities and         *)
(* createReports.                                                          *)
(***************************************************************************)
\* the distinct values of path among docs, in order of first appearance
RECURSIVE GroupKeys(_, _, _)
GroupKeys(docs, path, seen) ==
    IF docs = <<>> THEN seen
    ELSE LET k == FieldOf(docs[1], path)
         IN  GroupKeys(Tail(docs), path,
                       IF \E i \in 1..Len(seen) : seen[i] = k THEN seen ELSE Append(seen, k))

\* { $group: { _id: "$path", facts: { $push: "$$ROOT" } } }
GroupBy(docs, path) ==
    LET keys == GroupKeys(docs, path, <<>>)
    IN  [g \in 1..Len(keys) |->
            [id |-> keys[g],
             facts |-> SelectSeq(docs, LAMBDA d : FieldOf(d, path) = keys[g])]]

\* insert in every case, whether or not a document matches the key
UpdateOne_AlwaysInsert(coll, keyField, key, doc) == Append(coll, doc)

\* collection.updateOne({keyField: key}, {$set: doc}, {upsert: true})
UpdateOne(coll, keyField, key, doc) ==
    IF \E i \in 1..Len(coll) : FieldOf(coll[i], keyField) = key
    THEN LET i == CHOOSE i \in 1..Len(coll) :
                    /\ FieldOf(coll[i], keyField) = key
                    /\ \A j \in 1..(i - 1) : FieldOf(coll[j], keyField) # key
         IN  [coll EXCEPT ![i] = doc @@ coll[i]]
    ELSE Append(coll, doc)

\* Array.prototype.find on the concept of the facts
RECURSIVE FindConcept(_, _)
FindConcept(fs, conceptId) ==
    IF fs = <<>> THEN <<>>
    ELSE IF FieldOf(fs[1], "dimensions.concept") = conceptId THEN <<fs[1]>>
    ELSE FindConcept(Tail(fs), conceptId)

findFactValue(fs, conceptId) ==
    LET found == FindConcept(fs, conceptId)
    IN  IF found # <<>> THEN found[1].value ELSE Null

NameConcept == "ifrs-full:NameOfReportingEntityOrOtherMeansOfIdentification"
DescriptionConcept == "ifrs-full:DescriptionOfNatureOfFinancialStatements"
SectorConcept == "ifrs_mx-cor_20141205:TipoDeEmisora"
ConsolidatedConcept == "ifrs_mx-cor_20141205:Consolidado"
CurrencyConcept == "ifrs-full:DescriptionOfPresentationCurrency"

IdentityConcepts == {NameConcept, DescriptionConcept, SectorConcept, ConsolidatedConcept}

EntityGroups(coll) ==
    GroupBy(Find(coll, SetPath(SetPath(EmptyQuery, "dimensions.entity", Exists),
                               "dimensions.concept", In(IdentityConcepts))),
            "dimensions.entity")

EntityDoc(group) ==
    [id |-> group.id,
     name |-> findFactValue(group.facts, NameConcept),
     description |-> findFactValue(group.facts, DescriptionConcept),
     sector |-> findFactValue(group.facts, SectorConcept),
     consolidated |-> findFactValue(group.facts, ConsolidatedConcept) = "true"]

\* the loop of extractEntities over the groups
RECURSIVE UpsertEntities(_, _)
UpsertEntities(groups, coll) ==
    IF groups = <<>> THEN coll
    ELSE UpsertEntities(Tail(groups),
                        UpdateOne(coll, "id", groups[1].id, EntityDoc(groups[1])))

\* the loop of createReports over the periods of a report
RECURSIVE PeriodBounds(_, _, _)
PeriodBounds(periods, startDate, endDate) ==
    IF periods = <<>> THEN [startDate |-> startDate, endDate |-> endDate]
    ELSE LET period == periods[1]
             sp     == Split(period, "/")
             start  == Part(sp, 1)
             end    == Part(sp, 2)
         IN  IF Includes(period, "/")
             THEN PeriodBounds(Tail(periods),
                      IF ~StrTruthy(startDate) \/ StrLess(start, startDate)
                      THEN start ELSE startDate,
                      IF ~StrTruthy(endDate) \/ StrLess(endDate, end)
                      THEN end ELSE endDate)
             ELSE PeriodBounds(Tail(periods), startDate, endDate)

ReportGroups(coll) ==
    GroupBy(Find(coll, SetPath(EmptyQuery, "reportId", Exists)), "reportId")

\* the report document with the bounds of the first duration period only
ReportDoc_FirstPeriod(group) ==
    LET periodFacts == SelectSeq(group.facts,
                                 LAMBDA f : StrTruthy(FieldOf(f, "dimensions.period")))
        periods == [i \in 1..Len(periodFacts) |-> periodFacts[i].dimensions.period]
        durations == SelectSeq(periods, LAMBDA p : Includes(p, "/"))
        bounds  == PeriodBounds(IF durations = <<>> THEN <<>> ELSE <<durations[1]>>,
                                Null, Null)
        first   == group.facts[1]
    IN  [reportId |-> group.id,
         entity |-> FieldOf(first, "dimensions.entity"),
         year |-> FieldOf(first, "year"),
         quarter |-> FieldOf(first, "quarter"),
         startDate |-> bounds.startDate,
         endDate |-> bounds.endDate,
         currency |-> findFactValue(group.facts, CurrencyConcept),
         factCount |-> Len(group.facts)]

ReportDoc(group) ==
    LET periodFacts == SelectSeq(group.facts,
                                 LAMBDA f : StrTruthy(FieldOf(f, "dimensions.period")))
        periods == [i \in 1..Len(periodFacts) |-> periodFacts[i].dimensions.period]
        bounds  == PeriodBounds(periods, Null, Null)
        first   == group.facts[1]
    IN  [reportId |-> group.id,
         entity |-> FieldOf(first, "dimensions.entity"),
         year |-> FieldOf(first, "year"),
         quarter |-> FieldOf(first, "quarter"),
         startDate |-> bounds.startDate,
         endDate |-> bounds.endDate,
         currency |-> findFactValue(group.facts, CurrencyConcept),
         factCount |-> Len(group.facts)]

RECURSIVE UpsertReports(_, _)
UpsertReports(groups, coll) ==
    IF groups = <<>> THEN coll
    ELSE UpsertReports(Tail(groups),
                       UpdateOne(coll, "reportId", groups[1].id, ReportDoc(groups[1])))

ExtractEntities ==
    /\ agg.eRuns < MaxAggRuns
    /\ entities' = UpsertEntities(EntityGroups(facts), entities)
    /\ agg' = [agg EXCEPT !.eRuns = @ + 1,
                          !.eFirst = IF agg.eRuns = 0 THEN entities' ELSE @]
    /\ UNCHANGED <<passes, connects, db, concepts, facts, labels, reports, imports, cur, off, resp>>

CreateReports ==
    /\ agg.rRuns < MaxAggRuns
    /\ reports' = UpsertReports(ReportGroups(facts), reports)
    /\ agg' = [agg EXCEPT !.rRuns = @ + 1,
                          !.rFirst = IF agg.rRuns = 0 THEN reports' ELSE @]
    /\ UNCHANGED <<passes, connects, db, concepts, facts, labels, entities, imports, cur, off, resp>>

\* facts that identify two entities and carry the currency of a report
IdFile ==
    << RawFact("I1", NameConcept, "scheme:ACME", Q1, "Acme SA", "2023", "1", "ACME_2023_1"),
       RawFact("I2", ConsolidatedConcept, "scheme:ACME", Q1, "true", "2023", "1", "ACME_2023_1"),
       RawFact("I3", NameConcept, "scheme:ACME", Q2, "Acme Holding", "2023", "2", "ACME_2023_2"),
       RawFact("I4", CurrencyConcept, "scheme:ACME", Q2, "MXN", "2023", "2", "ACME_2023_2"),
       RawFact("I5", SectorConcept, "scheme:BETA", "2023-06-30", "ICS", "2023", "2", "BETA_2023_2"),
       RawFact("I6", NameConcept, "scheme:BETA", "2023-01-01/2023-06-30", "Beta", "2023", "2",
               "ACME_2023_2") >>

\* a later filing that renames an entity and adds facts to a stored report
IdFile2 ==
    << RawFact("J1", DescriptionConcept, "scheme:ACME", "2022-10-01/2023-03-31", "Annual",
               "2023", "1", "ACME_2023_1"),
       RawFact("J2", NameConcept, "scheme:GAMMA", "2023-03-31", "Gamma", "2023", "1",
               "GAMMA_2023_1") >>

AggFiles == {MixFile, IdFile, IdFile2}

NextAgg ==
    \/ \E file \in AggFiles : ImportFacts(file)
    \/ ExtractEntities
    \/ CreateReports

SpecAgg == Init /\ [][NextAgg]_vars

OnePerKey(coll, keyField) ==
    \A i, j \in 1..Len(coll) : FieldOf(coll[i], keyField) = FieldOf(coll[j], keyField) => i = j

\* C6: a second (and any further) run of entity derivation and of report
\* derivation on an unchanged Fact collection leaves the Entity and Report
\* collections as the first run left them, with one record per natural key.
C6_AggregatorIdempotent ==
    /\ agg.eRuns >= 2 => entities = agg.eFirst /\ OnePerKey(entities, "id")
    /\ agg.rRuns >= 2 => reports = agg.rFirst /\ OnePerKey(reports, "reportId")

\* both passes ran twice after a second import changed stored records
C6_Witness ==
    /\ agg.eRuns >= 2 /\ agg.rRuns >= 2
    /\ imports = 2
    /\ Len(entities) >= 2 /\ Len(reports) >= 3
    /\ \E i \in 1..Len(reports) : reports[i].factCount >= 2 /\ reports[i].currency # Null

-----------------------------------------------------------------------------
(***************************************************************************)
(* GET /api/finance/statement and GET /api/finance/ratios                  *)
(***************************************************************************)
\* a JavaScript value that is a number or a string
JsNum(x) == [t |-> "number", n |-> x, s |-> ""]
JsStr(str) == [t |-> "string", n |-> NaN, s |-> str]

\* fact.numericValue || fact.value
NumericOrValue(fact) ==
    IF Has(fact, "numericValue") /\ NumTruthy(fact.numericValue)
    THEN JsNum(fact.numericValue) ELSE JsStr(fact.value)

BalanceSheetConcepts ==
    << "ifrs-full_Assets", "ifrs-full_CurrentAssets", "ifrs-full_CashAndCashEquivalents",
       "ifrs-full_TradeAndOtherCurrentReceivables", "ifrs-full_Inventories",
       "ifrs-full_NoncurrentAssets", "ifrs-full_PropertyPlantAndEquipment",
       "ifrs-full_InvestmentProperty", "ifrs-full_Liabilities",
       "ifrs-full_CurrentLiabilities", "ifrs-full_TradeAndOtherCurrentPayables",
       "ifrs-full_NoncurrentLiabilities", "ifrs-full_NoncurrentBorrowings",
       "ifrs-full_Equity" >>

IncomeStatementConcepts ==
    << "ifrs-full_Revenue", "ifrs-full_CostOfSales", "ifrs-full_GrossProfit",
       "ifrs-full_OtherIncome", "ifrs-full_DistributionCosts",
       "ifrs-full_AdministrativeExpense", "ifrs-full_OtherExpense",
       "ifrs-full_ProfitLossFromOperatingActivities", "ifrs-full_FinanceIncome",
       "ifrs-full_FinanceCosts", "ifrs-full_ProfitLossBeforeTax", "ifrs-full_TaxExpense",
       "ifrs-full_ProfitLoss" >>

CashFlowConcepts ==
    << "ifrs-full_CashFlowsFromUsedInOperatingActivities",
       "ifrs-full_ProfitLossAdjustedForNoncashItems",
       "ifrs-full_CashFlowsFromUsedInInvestingActivities",
       "ifrs-full_CashFlowsFromUsedInFinancingActivities",
       "ifrs-full_IncreaseDecreaseInCashAndCashEquivalents",
       "ifrs-full_CashAndCashEquivalentsAtBeginningOfPeriod",
       "ifrs-full_CashAndCashEquivalentsAtEndOfPeriod" >>

StatementTypes == {"balanceSheet", "incomeStatement", "cashFlow"}

StatementConcepts(statementType) ==
    CASE statementType = "balanceSheet" -> BalanceSheetConcepts
      [] statementType = "incomeStatement" -> IncomeStatementConcepts
      [] statementType = "cashFlow" -> CashFlowConcepts
      [] OTHER -> <<>>

Range(seq) == {seq[i] : i \in 1..Len(seq)}

\* the query of the finance handlers: entity pattern, concept list, and the
\* year and quarter when given
FinanceQuery(entity, conceptList, year, quarter) ==
    LET q1 == SetPath(SetPath(EmptyQuery, "dimensions.entity", Regex(entity)),
                      "dimensions.concept", In(Range(conceptList)))
        q2 == IF StrTruthy(year) THEN SetPath(q1, "year", Eq(year)) ELSE q1
    IN  IF StrTruthy(quarter) THEN SetPath(q2, "quarter", Eq(quarter)) ELSE q2

\* labels.reduce((map, label) => { map[label.conceptId] = label.lab; ... })
RECURSIVE LabelMapLookup(_, _)
LabelMapLookup(ls, concept) ==
    IF ls = <<>> THEN Null
    ELSE IF ls[Len(ls)].conceptId = concept THEN FieldOf(ls[Len(ls)], "lab")
    ELSE LabelMapLookup(SubSeq(ls, 1, Len(ls) - 1), concept)

\* the last fact of a concept is taken instead of the first
FirstOf_Last(fs) == fs[Len(fs)]

\* conceptFacts[0]
FirstOf(fs) == fs[1]

\* one element of statementItems
StatementItem(concept, fs, ls) ==
    LET conceptFacts == SelectSeq(fs, LAMBDA f : f.dimensions.concept = concept)
        label == OrElse(LabelMapLookup(ls, concept), concept)
        fact  == FirstOf(conceptFacts)
    IN  IF Len(conceptFacts) = 0
        THEN [concept |-> concept, label |-> label, present |-> FALSE]
        ELSE [concept |-> concept, label |-> label,
              value |-> NumericOrValue(fact),
              period |-> FieldOf(fact, "dimensions.period"),
              unit |-> FieldOf(fact, "dimensions.unit"),
              year |-> FieldOf(fact, "year"),
              quarter |-> FieldOf(fact, "quarter"),
              present |-> TRUE]

getFinancialStatement(params, factsColl, labelsColl) ==
    LET entity        == ParamGet(params, "entity")
        statementType == OrElse(ParamGet(params, "type"), "balanceSheet")
        year          == ParamGet(params, "year")
        quarter       == ParamGet(params, "quarter")
        language      == OrElse(ParamGet(params, "lang"), "en")
        statementConcepts == StatementConcepts(statementType)
        fs == Find(factsColl, FinanceQuery(entity, statementConcepts, year, quarter))
        ls == Find(labelsColl,
                   SetPath(SetPath(EmptyQuery, "conceptId", In(Range(statementConcepts))),
                           "lang", Eq(language)))
    IN  IF ~StrTruthy(entity)
        THEN [op |-> "statement", status |-> 400, error |-> "Entity parameter is required",
              params |-> params, fresh |-> TRUE]
        ELSE IF statementType \notin StatementTypes
        THEN [op |-> "statement", status |-> 400, error |-> "Invalid statement type",
              params |-> params, fresh |-> TRUE]
        ELSE [op |-> "statement", status |-> 200,
              data |-> [k \in 1..Len(statementConcepts) |->
                           StatementItem(statementConcepts[k], fs, ls)],
              entity |-> entity, statementType |-> statementType,
              year |-> year, quarter |-> quarter,
              params |-> params, fresh |-> TRUE]

RequiredConcepts ==
    << "ifrs-full_Assets", "ifrs-full_CurrentAssets", "ifrs-full_Liabilities",
       "ifrs-full_CurrentLiabilities", "ifrs-full_Equity", "ifrs-full_Revenue",
       "ifrs-full_ProfitLoss", "ifrs-full_CashAndCashEquivalents" >>

\* the five ratios: key, operand concepts, and whether the quotient is
\* multiplied by 100
RatioDefs ==
    << [key |-> "currentRatio", a |-> "ifrs-full_CurrentAssets",
        b |-> "ifrs-full_CurrentLiabilities", pct |-> FALSE,
        formula |-> "Current Assets / Current Liabilities",
        ca |-> "currentAssets", cb |-> "currentLiabilities"],
       [key |-> "debtToEquityRatio", a |-> "ifrs-full_Liabilities",
        b |-> "ifrs-full_Equity", pct |-> FALSE,
        formula |-> "Total Liabilities / Total Equity",
        ca |-> "liabilities", cb |-> "equity"],
       [key |-> "returnOnAssets", a |-> "ifrs-full_ProfitLoss",
        b |-> "ifrs-full_Assets", pct |-> TRUE,
        formula |-> "(Net Income / Total Assets) * 100",
        ca |-> "netIncome", cb |-> "totalAssets"],
       [key |-> "returnOnEquity", a |-> "ifrs-full_ProfitLoss",
        b |-> "ifrs-full_Equity", pct |-> TRUE,
        formula |-> "(Net Income / Total Equity) * 100",
        ca |-> "netIncome", cb |-> "totalEquity"],
       [key |-> "cashRatio", a |-> "ifrs-full_CashAndCashEquivalents",
        b |-> "ifrs-full_CurrentLiabilities", pct |-> FALSE,
        formula |-> "Cash and Cash Equivalents / Current Liabilities",
        ca |-> "cashAndEquivalents", cb |-> "currentLiabilities"] >>

\* valueMap: the parsed value of the first fact of every required concept
\* that has one
ValueMap(fs) ==
    LET have == {c \in Range(RequiredConcepts) :
                    \E i \in 1..Len(fs) : fs[i].dimensions.concept = c}
    IN  [c \in have |->
            ParseFloat(FirstOf(SelectSeq(fs, LAMBDA f : f.dimensions.concept = c)).value)]

\* valueMap[concept] as a condition
MapTruthy(valueMap, concept) == concept \in DOMAIN valueMap /\ NumTruthy(valueMap[concept])

\* the quotient with the operands exchanged
RatioValue_Inverted(def, valueMap) ==
    LET q == NumDiv(valueMap[def.b], valueMap[def.a])
    IN  IF def.pct THEN NumMul(q, Num(100)) ELSE q

RatioValue(def, valueMap) ==
    LET q == NumDiv(valueMap[def.a], valueMap[def.b])
    IN  IF def.pct THEN NumMul(q, Num(100)) ELSE q

Ratios(valueMap) ==
    LET emitted == {k \in 1..Len(RatioDefs) :
                       MapTruthy(valueMap, RatioDefs[k].a) /\ MapTruthy(valueMap, RatioDefs[k].b)}
    IN  [key \in {RatioDefs[k].key : k \in emitted} |->
            LET def == RatioDefs[CHOOSE k \in emitted : RatioDefs[k].key = key]
            IN  [value |-> RatioValue(def, valueMap), formula |-> def.formula,
                 components |-> (def.ca :> valueMap[def.a]) @@ (def.cb :> valueMap[def.b])]]

calculateFinancialRatios(params, factsColl) ==
    LET entity   == ParamGet(params, "entity")
        year     == ParamGet(params, "year")
        quarter  == ParamGet(params, "quarter")
        fs       == Find(factsColl, FinanceQuery(entity, RequiredConcepts, year, quarter))
        valueMap == ValueMap(fs)
    IN  IF ~StrTruthy(entity)
        THEN [op |-> "ratios", status |-> 400, error |-> "Entity parameter is required",
              params |-> params, fresh |-> TRUE]
        ELSE [op |-> "ratios", status |-> 200, data |-> Ratios(valueMap),
              entity |-> entity, year |-> year, quarter |-> quarter,
              availableMetrics |-> SelectSeq(RequiredConcepts,
                                             LAMBDA c : c \in DOMAIN valueMap),
              params |-> params, fresh |-> TRUE]

-----------------------------------------------------------------------------
(***************************************************************************)
(* Source files with financial facts and labels, and the requests of the   *)
(* finance endpoints.                                                      *)
(***************************************************************************)
Fin(id, concept, entity, value, year, quarter) ==
    RawFact(id, "ifrs-full_" \o concept, entity, year \o "-03-31", value, year, quarter,
            "R_" \o year \o "_" \o quarter)

\* ACME, first quarter of 2023; Assets is reported twice, ProfitLoss is zero
FinFileA ==
    << WithDecimals(Fin("A01", "Assets", "scheme:ACME", "1000", "2023", "1"), 0),
       WithDim(Fin("A02", "Assets", "scheme:ACME", "999", "2023", "1"), "segment", "retail"),
       Fin("A03", "CurrentAssets", "scheme:ACME", "200", "2023", "1"),
       Fin("A04", "CurrentLiabilities", "scheme:ACME", "100", "2023", "1"),
       Fin("A05", "Liabilities", "scheme:ACME", "300", "2023", "1"),
       WithDecimals(Fin("A06", "Equity", "scheme:ACME", "150", "2023", "1"), -1),
       WithDecimals(Fin("A07", "ProfitLoss", "scheme:ACME", "0", "2023", "1"), 0),
       Fin("A08", "CashAndCashEquivalents", "scheme:ACME", "50.5", "2023", "1"),
       Fin("A09", "Revenue", "scheme:ACME", "500", "2023", "1"),
       Fin("A10", "CashFlowsFromUsedInOperatingActivities", "scheme:ACME", "70", "2023", "1") >>

\* BETA with a zero and an unparsable operand, and ACME one year later
FinFileB ==
    << Fin("B01", "CurrentAssets", "scheme:Beta", "200", "2024", "2"),
       Fin("B02", "CurrentLiabilities", "scheme:Beta", "0", "2024", "2"),
       Fin("B03", "Liabilities", "scheme:Beta", "300", "2024", "2"),
       Fin("B04", "Equity", "scheme:Beta", "n/a", "2024", "2"),
       WithDecimals(Fin("B05", "ProfitLoss", "scheme:Beta", "-20", "2024", "2"), 0),
       Fin("B06", "Assets", "scheme:Beta", "400", "2024", "2"),
       Fin("B07", "CurrentAssets", "scheme:ACME", "50", "2024", "2"),
       Fin("B08", "CurrentLiabilities", "scheme:ACME", "25", "2024", "2"),
       Fin("B09", "Revenue", "scheme:ACME", "650", "2024", "2") >>

FinFiles == {FinFileA, FinFileB}

Label(conceptId, lang, lab) ==
    [conceptId |-> conceptId, lang |-> lang, role |-> "label", lab |-> lab]

LabelFile ==
    << Label("ifrs-full_Assets", "en", "Assets"),
       Label("ifrs-full_Assets", "es", "Activos"),
       Label("ifrs-full_Assets", "en", "Total assets"),
       Label("ifrs-full_Equity", "en", ""),
       Label("ifrs-full_Revenue", "es", "Ingresos") >>

\* importLabels: the labels of the file are appended (insertMany)
ImportLabels ==
    /\ imports < MaxImports
    /\ labels' = labels \o LabelFile
    /\ imports' = imports + 1
    /\ UNCHANGED <<passes, connects, db, concepts, facts, entities, reports, cur, off, resp, agg>>

FinanceParamSets ==
    { <<>>,
      << <<"entity", "">> >>,
      << <<"entity", "acme">> >>,
      << <<"entity", "BETA">> >>,
      << <<"entity", "scheme">> >>,
      << <<"entity", "nobody">> >>,
      << <<"entity", "acme">>, <<"year", "2023">> >>,
      << <<"entity", "acme">>, <<"year", "2024">>, <<"quarter", "2">> >>,
      << <<"entity", "scheme:">>, <<"quarter", "2">>, <<"year", "">> >>,
      << <<"entity", "acme">>, <<"type", "incomeStatement">>, <<"lang", "es">> >>,
      << <<"entity", "a.me">>, <<"type", "cashFlow">> >>,
      << <<"entity", "beta">>, <<"type", "balanceSheet">>, <<"lang", "es">> >>,
      << <<"entity", "acme">>, <<"type", "equity">> >> }

GetFinancialStatement(params) ==
    /\ resp' = getFinancialStatement(params, facts, labels)
    /\ db' = TRUE
    /\ UNCHANGED <<passes, connects, concepts, facts, labels, entities, reports, imports, cur, off, agg>>

CalculateFinancialRatios(params) ==
    /\ resp' = calculateFinancialRatios(params, facts)
    /\ db' = TRUE
    /\ UNCHANGED <<passes, connects, concepts, facts, labels, entities, reports, imports, cur, off, agg>>

NextFinance ==
    \/ \E file \in FinFiles : ImportFacts(file)
    \/ ImportLabels
    \/ \E params \in FinanceParamSets : GetFinancialStatement(params)
    \/ \E params \in FinanceParamSets : CalculateFinancialRatios(params)

SpecFinance == Init /\ [][NextFinance]_vars

(***************************************************************************)
(* The facts a finance request is about: those of the entity, and of the   *)
(* year and quarter when given, in storage order.                          *)
(***************************************************************************)
RequestFacts(params) ==
    LET entity  == ParamGet(params, "entity")
        year    == ParamGet(params, "year")
        quarter == ParamGet(params, "quarter")
    IN  SelectSeq(facts, LAMBDA f :
            /\ RegexI(entity, f.dimensions.entity)
            /\ StrTruthy(year) => f.year = year
            /\ StrTruthy(quarter) => f.quarter = quarter)

HasConcept(fs, concept) == \E i \in 1..Len(fs) : fs[i].dimensions.concept = concept

FirstWithConcept(fs, concept) ==
    fs[CHOOSE i \in 1..Len(fs) :
          /\ fs[i].dimensions.concept = concept
          /\ \A j \in 1..(i - 1) : fs[j].dimensions.concept # concept]

StatementAnswered == resp.op = "statement" /\ resp.status = 200 /\ resp.fresh
RatiosAnswered == resp.op = "ratios" /\ resp.status = 200 /\ resp.fresh

\* C7: a statement has one item per concept of the list of its kind, in the
\* order of the list; an item is present exactly when a fact of the entity
\* (and year / quarter) has the concept, and then carries the value, period,
\* unit, year and quarter of the first such fact.
C7_StatementAssembly ==
    StatementAnswered =>
        LET list == StatementConcepts(resp.statementType)
            fs   == RequestFacts(resp.params)
        IN  /\ Len(resp.data) = Len(list)
            /\ \A k \in 1..Len(list) :
                  LET item == resp.data[k]
                  IN  /\ item.concept = list[k]
                      /\ item.present <=> HasConcept(fs, list[k])
                      /\ item.present =>
                            LET fact == FirstWithConcept(fs, list[k])
                            IN  /\ item.value = NumericOrValue(fact)
                                /\ item.period = fact.dimensions.period
                                /\ item.unit = fact.dimensions.unit
                                /\ item.year = fact.year
                                /\ item.quarter = fact.quarter

\* a balance sheet without PropertyPlantAndEquipment whose other items are
\* present, one of them reported twice
C7_Witness ==
    /\ StatementAnswered
    /\ resp.statementType = "balanceSheet"
    /\ ~resp.data[7].present
    /\ resp.data[1].present /\ resp.data[14].present
    /\ Len(SelectSeq(RequestFacts(resp.params),
                     LAMBDA f : f.dimensions.concept = "ifrs-full_Assets")) >= 2

RatioDef(key) == RatioDefs[CHOOSE k \in 1..Len(RatioDefs) : RatioDefs[k].key = key]

RatioKeys == {RatioDefs[k].key : k \in 1..Len(RatioDefs)}

\* C8: a ratio is in the response exactly when both of its operand concepts
\* have a matching fact, whatever the values are (a zero denominator
\* included).
C8_RatioIffOperands ==
    RatiosAnswered =>
        LET fs == RequestFacts(resp.params)
        IN  \A key \in RatioKeys :
                key \in DOMAIN resp.data
                    <=> HasConcept(fs, RatioDef(key).a) /\ HasConcept(fs, RatioDef(key).b)

\* the value a ratio has by its formula, on the first fact of each operand
FormulaValue(key, fs) ==
    LET a == ParseFloat(FirstWithConcept(fs, RatioDef(key).a).value)
        b == ParseFloat(FirstWithConcept(fs, RatioDef(key).b).value)
    IN  CASE key = "currentRatio"      -> NumDiv(a, b)
          [] key = "debtToEquityRatio" -> NumDiv(a, b)
          [] key = "cashRatio"         -> NumDiv(a, b)
          [] key = "returnOnAssets"    -> NumMul(NumDiv(a, b), Num(100))
          [] key = "returnOnEquity"    -> NumMul(NumDiv(a, b), Num(100))

FirstValueIs(fs, concept, value) ==
    HasConcept(fs, concept) /\ FirstWithConcept(fs, concept).value = value

\* C9: every ratio in the response has the value of its formula on the first
\* matching fact of each operand concept; CurrentAssets=200 with
\* CurrentLiabilities=100 gives currentRatio.value = 2, and Liabilities=300
\* with Equity=150 gives debtToEquityRatio.value = 2.
C9_RatioValues ==
    RatiosAnswered =>
        LET fs == RequestFacts(resp.params)
        IN  /\ \A key \in DOMAIN resp.data : resp.data[key].value = FormulaValue(key, fs)
            /\ (FirstValueIs(fs, "ifrs-full_CurrentAssets", "200")
                /\ FirstValueIs(fs, "ifrs-full_CurrentLiabilities", "100"))
                  => /\ "currentRatio" \in DOMAIN resp.data
                     /\ resp.data["currentRatio"].value = [num |-> 2, den |-> 1]
            /\ (FirstValueIs(fs, "ifrs-full_Liabilities", "300")
                /\ FirstValueIs(fs, "ifrs-full_Equity", "150"))
                  => /\ "debtToEquityRatio" \in DOMAIN resp.data
                     /\ resp.data["debtToEquityRatio"].value = [num |-> 2, den |-> 1]

\* both examples in one response, next to a ratio that is not a whole number
C9_Witness ==
    /\ RatiosAnswered
    /\ FirstValueIs(RequestFacts(resp.params), "ifrs-full_CurrentAssets", "200")
    /\ FirstValueIs(RequestFacts(resp.params), "ifrs-full_CurrentLiabilities", "100")
    /\ FirstValueIs(RequestFacts(resp.params), "ifrs-full_Equity", "150")
    /\ "debtToEquityRatio" \in DOMAIN resp.data
    /\ "cashRatio" \in DOMAIN resp.data
    /\ resp.data["cashRatio"].value = [num |-> 101, den |-> 200]

-----------------------------------------------------------------------------
(***************************************************************************)
(* calculateSimilarity, as searchConceptsByLabel calls it on the           *)
(* lower-cased search text and label.                                      *)
(***************************************************************************)
\* a substitution that costs nothing
Indicator_Free(c1, c2) == 0

\* s1[i - 1] === s2[j - 1] ? 0 : 1
Indicator(c1, c2) == IF c1 = c2 THEN 0 ELSE 1

Min3(a, b, c) == IF a <= b /\ a <= c THEN a ELSE IF b <= c THEN b ELSE c

\* row j of track from row j - 1, filled from column i on
RECURSIVE FillRow(_, _, _, _, _, _)
FillRow(prev, row, s1, s2, j, i) ==
    IF i > Len(s1) THEN row
    ELSE FillRow(prev,
                 (i :> Min3(row[i - 1] + 1,
                            prev[i] + 1,
                            prev[i - 1] + Indicator(CharAt(s1, i), CharAt(s2, j)))) @@ row,
                 s1, s2, j, i + 1)

\* track[j]
RECURSIVE TrackRow(_, _, _)
TrackRow(s1, s2, j) ==
    IF j = 0 THEN [i \in 0..Len(s1) |-> i]
    ELSE FillRow(TrackRow(s1, s2, j - 1), (0 :> j), s1, s2, j, 1)

calculateSimilarity(s1, s2) ==
    LET distance  == TrackRow(s1, s2, Len(s2))[Len(s1)]
        maxLength == IF Len(s1) > Len(s2) THEN Len(s1) ELSE Len(s2)
    IN  NumSub(Num(1), NumDiv(Num(distance), Num(maxLength)))

SimChars == {"a", "b", "C"}

RECURSIVE StringsUpTo(_)
StringsUpTo(n) ==
    IF n = 0 THEN {""}
    ELSE StringsUpTo(n - 1) \cup {str \o c : str \in StringsUpTo(n - 1), c \in SimChars}

SimStrings == StringsUpTo(MaxStrLen)

\* a search request that waits for its answer
SearchRequest(searchText, lab) ==
    [op |-> "search", status |-> 0, text |-> searchText, lab |-> lab, fresh |-> TRUE]

\* the search text is required; each label of the language is compared with it
CalculateSimilarity ==
    /\ resp.op = "search"
    /\ resp' = IF ~StrTruthy(resp.text)
               THEN [op |-> "similarity", status |-> 400,
                     error |-> "Search text is required", fresh |-> TRUE]
               ELSE [op |-> "similarity", status |-> 200,
                     s1 |-> ToLowerCase(resp.text), s2 |-> ToLowerCase(resp.lab),
                     similarity |-> calculateSimilarity(ToLowerCase(resp.text),
                                                        ToLowerCase(resp.lab)),
                     fresh |-> TRUE]
    /\ db' = TRUE
    /\ UNCHANGED <<passes, connects, concepts, facts, labels, entities, reports, imports, cur, off, agg>>

\* the store is empty and a search for any text against any label is waiting
InitSimilarity ==
    /\ facts = <<>>
    /\ concepts = <<>>
    /\ labels = <<>>
    /\ entities = <<>>
    /\ reports = <<>>
    /\ imports = 0
    /\ cur = NoWalk
    /\ off = NoPaging
    /\ agg = NoAgg
    /\ db = FALSE
    /\ passes = NoPasses
    /\ connects = NoConnects
    /\ \E searchText \in SimStrings, lab \in SimStrings :
           resp = SearchRequest(searchText, lab)

NextSimilarity == CalculateSimilarity

SpecSimilarity == InitSimilarity /\ [][NextSimilarity]_vars

SimilarityComputed == resp.op = "similarity" /\ resp.status = 200

\* no character occurs in both strings
DisjointStrings(a, b) ==
    \A i \in 1..Len(a) : \A j \in 1..Len(b) : CharAt(a, i) # CharAt(b, j)

-----------------------------------------------------------------------------
(***************************************************************************)
(* GET /api/concepts/search: the labels of one language, scored against    *)
(* the search text, filtered by the threshold and ranked.                  *)
(***************************************************************************)
\* a >= b on JavaScript numbers: false when an operand is NaN
NumGeq(x, y) == ~IsNaN(x) /\ ~IsNaN(y) /\ x.num * y.den >= y.num * x.den

\* the filter keeps every score that reaches the threshold or exceeds it
MeetsThreshold_Strict(similarity, minSimilarity) ==
    NumGeq(similarity, minSimilarity) /\ similarity # minSimilarity

\* result.similarity >= minSimilarity
MeetsThreshold(similarity, minSimilarity) == NumGeq(similarity, minSimilarity)

\* the element of results for one label
SearchResult(searchText, label) ==
    [conceptId |-> label.conceptId, label |-> label.lab, language |-> label.lang,
     role |-> label.role,
     similarity |-> calculateSimilarity(ToLowerCase(searchText), ToLowerCase(label.lab))]

\* insert r after every result whose similarity is not smaller
RECURSIVE InsertBySimilarity(_, _)
InsertBySimilarity(sorted, r) ==
    IF sorted = <<>> THEN <<r>>
    ELSE IF NumLess(sorted[1].similarity, r.similarity) THEN <<r>> \o sorted
    ELSE <<sorted[1]>> \o InsertBySimilarity(Tail(sorted), r)

\* results.sort((a, b) => b.similarity - a.similarity): a stable sort
RECURSIVE SortBySimilarity(_)
SortBySimilarity(rs) ==
    IF rs = <<>> THEN <<>>
    ELSE InsertBySimilarity(SortBySimilarity(SubSeq(rs, 1, Len(rs) - 1)), rs[Len(rs)])

searchConceptsByLabel(params, ls) ==
    LET searchText    == ParamGet(params, "text")
        lang          == OrElse(ParamGet(params, "lang"), "en")
        minSimilarity == ParseFloat(OrElse(ParamGet(params, "minSimilarity"), "0.6"))
        found         == Find(ls, SetPath(EmptyQuery, "lang", Eq(lang)))
        results       == [i \in 1..Len(found) |-> SearchResult(searchText, found[i])]
        filteredResults ==
            SortBySimilarity(SelectSeq(results,
                LAMBDA r : MeetsThreshold(r.similarity, minSimilarity)))
    IN  IF ~StrTruthy(searchText)
        THEN [op |-> "searchConcepts", status |-> 400, error |-> "Search text is required",
              params |-> params, fresh |-> TRUE]
        ELSE [op |-> "searchConcepts", status |-> 200, data |-> filteredResults,
              searchText |-> searchText, language |-> lang,
              count |-> Len(filteredResults),
              params |-> params, fresh |-> TRUE]

\* label files in two languages, with labels that differ in case only
SearchLabelsA ==
    << Label("c:ab", "en", "ab"),
       Label("c:AB", "en", "AB"),
       Label("c:abC", "en", "abC"),
       Label("c:ba", "es", "ba") >>

SearchLabelsB ==
    << Label("c:b", "en", "b"),
       Label("c:none", "en", ""),
       Label("c:ab", "es", "ab"),
       Label("c:CC", "en", "CC") >>

SearchLabelsC ==
    << Label("c:aC", "en", "aC"),
       Label("c:ab", "en", "ab"),
       Label("c:Cb", "fr", "Cb") >>

SearchLabelFiles == {SearchLabelsA, SearchLabelsB, SearchLabelsC}

\* importLabels, for any labels file
ImportLabelsFrom(file) ==
    /\ imports < MaxImports
    /\ labels' = labels \o file
    /\ imports' = imports + 1
    /\ resp' = [resp EXCEPT !.fresh = FALSE]
    /\ UNCHANGED <<passes, connects, db, concepts, facts, entities, reports, cur, off, agg>>

SearchParamSets ==
    { <<>>,
      << <<"text", "">> >>,
      << <<"text", "ab">> >>,
      << <<"text", "AB">>, <<"lang", "es">> >>,
      << <<"text", "aC">>, <<"minSimilarity", "0.5">> >>,
      << <<"text", "ab">>, <<"minSimilarity", "0">> >>,
      << <<"text", "b">>, <<"minSimilarity", "1">>, <<"lang", "en">> >>,
      << <<"text", "abC">>, <<"minSimilarity", "0.34">>, <<"lang", "">> >>,
      << <<"text", "ba">>, <<"minSimilarity", "">> >>,
      << <<"text", "Cb">>, <<"minSimilarity", "x">> >>,
      << <<"text", "ab">>, <<"lang", "fr">>, <<"minSimilarity", "0">> >>,
      << <<"text", "bCa">>, <<"minSimilarity", "0.5">> >> }

SearchConceptsByLabel(params) ==
    /\ resp' = searchConceptsByLabel(params, labels)
    /\ db' = TRUE
    /\ UNCHANGED <<passes, connects, concepts, facts, labels, entities, reports, imports, cur, off, agg>>

NextSearch ==
    \/ \E file \in SearchLabelFiles : ImportLabelsFrom(file)
    \/ \E params \in SearchParamSets : SearchConceptsByLabel(params)

SpecSearch == Init /\ [][NextSearch]_vars

SearchAnswered == resp.op = "searchConcepts" /\ resp.status = 200 /\ resp.fresh

\* the requested language and threshold of the answered search
SearchLang == OrElse(ParamGet(resp.params, "lang"), "en")
SearchThreshold == ParseFloat(OrElse(ParamGet(resp.params, "minSimilarity"), "0.6"))

\* the similarity of a label to the search text, both lower-cased
LabelSimilarity(label) ==
    calculateSimilarity(ToLowerCase(resp.searchText), ToLowerCase(label.lab))

\* the label is one the search has to return
Qualifies(label) ==
    /\ label.lang = SearchLang
    /\ NumGeq(LabelSimilarity(label), SearchThreshold)

\* result r reports label l
Reports(r, l) ==
    /\ r.conceptId = l.conceptId /\ r.label = l.lab
    /\ r.language = l.lang /\ r.role = l.role
    /\ r.similarity = LabelSimilarity(l)

\* C11: an answered label search returns exactly the labels of the requested
\* language (default en) whose similarity to the lower-cased text reaches the
\* threshold (default 0.6), each once, in order of non-increasing similarity,
\* and count is the number of results.
C11_SearchResults ==
    SearchAnswered =>
        /\ \A i \in 1..Len(resp.data) :
               \E k \in 1..Len(labels) : Qualifies(labels[k]) /\ Reports(resp.data[i], labels[k])
        /\ \A k \in 1..Len(labels) :
               Qualifies(labels[k]) =>
                   Cardinality({i \in 1..Len(resp.data) : Reports(resp.data[i], labels[k])})
                     = Cardinality({j \in 1..Len(labels) : labels[j] = labels[k]})
        /\ \A i \in 1..(Len(resp.data) - 1) :
               NumGeq(resp.data[i].similarity, resp.data[i + 1].similarity)
        /\ resp.count = Len(resp.data)

\* a search that keeps a label at exactly the threshold, drops labels below it
\* and of the other language, and ranks a better match that was stored later
C11_Witness ==
    /\ SearchAnswered
    /\ Len(resp.data) >= 2
    /\ \E i \in 1..Len(resp.data) : resp.data[i].similarity = SearchThreshold
    /\ \E k \in 1..Len(labels) : labels[k].lang = SearchLang /\ ~Qualifies(labels[k])
    /\ \E k \in 1..Len(labels) : labels[k].lang # SearchLang
    /\ \E j, k \in 1..Len(labels) :
           /\ j < k /\ Qualifies(labels[j]) /\ Qualifies(labels[k])
           /\ NumLess(LabelSimilarity(labels[j]), LabelSimilarity(labels[k]))

-----------------------------------------------------------------------------
(***************************************************************************)
(* The offset-mode parameters: withPagination on any page and limit text,  *)
(* and the page and limit that the list-facts answer echoes.               *)
(***************************************************************************)
\* texts a client can put in page or limit
PageTexts == {Null, "", "0", "1", "2", "3", "-1", "007", "2.7", "x", "1e3"}
LimitTexts == {Null, "", "0", "1", "2", "100", "500", "501", "-5", "abc", "3x"}

\* the query string with the page and limit that are supplied
PaginationParams(page, limit) ==
    (IF page = Null THEN <<>> ELSE << <<"page", page>> >>)
      \o (IF limit = Null THEN <<>> ELSE << <<"limit", limit>> >>)

\* a list-facts request that waits for its answer
PaginationRequest(page, limit) ==
    [op |-> "list", status |-> 0, params |-> PaginationParams(page, limit), fresh |-> TRUE]

\* GET /api/facts: ctx.state.pagination and the answer of the handler
WithPagination ==
    /\ resp.op = "list"
    /\ LET body == getFacts(resp.params, facts)
       IN  resp' = [op |-> "listed", status |-> body.status, params |-> resp.params,
                    pagination |-> withPagination(resp.params),
                    body |-> body, fresh |-> TRUE]
    /\ db' = TRUE
    /\ UNCHANGED <<passes, connects, concepts, facts, labels, entities, reports, imports, cur, off, agg>>

\* one file is imported and a list-facts request with any page and limit waits
InitPagination ==
    /\ facts = PreprocessFacts(MixFile)
    /\ concepts = <<>>
    /\ labels = <<>>
    /\ entities = <<>>
    /\ reports = <<>>
    /\ imports = 1
    /\ cur = NoWalk
    /\ off = NoPaging
    /\ agg = NoAgg
    /\ db = FALSE
    /\ passes = NoPasses
    /\ connects = NoConnects
    /\ \E page \in PageTexts, limit \in LimitTexts : resp = PaginationRequest(page, limit)

NextPagination == WithPagination

SpecPagination == InitPagination /\ [][NextPagination]_vars

Listed == resp.op = "listed"

\* C12: for every page and limit text the effective page is an integer of at
\* least 1 (1 when absent), the effective limit an integer of 1..500 (100
\* when absent), skip is (page - 1) * limit, and the answer echoes them.
C12_EffectivePagination ==
    Listed =>
        LET pg == resp.pagination
        IN  /\ IsInt(pg.page) /\ pg.page.num >= 1
            /\ ParamGet(resp.params, "page") = Null => pg.page = Num(1)
            /\ IsInt(pg.limit) /\ pg.limit.num \in 1..MaxLimit
            /\ ParamGet(resp.params, "limit") = Null => pg.limit = Num(100)
            /\ pg.skip = NumMul(NumSub(pg.page, Num(1)), pg.limit)
            /\ resp.status = 200
            /\ resp.body.pagination.page = pg.page
            /\ resp.body.pagination.limit = pg.limit

\* the page and the limit of the request both start with a digit run
NumericPaging ==
    /\ ~IsNaN(ParseInt(OrElse(ParamGet(resp.params, "page"), "1")))
    /\ ~IsNaN(ParseInt(OrElse(ParamGet(resp.params, "limit"), DefaultLimit)))

-----------------------------------------------------------------------------
(***************************************************************************)
(* One request to GET /api/facts/cursor, with any cursor, direction and    *)
(* limit, and its response.                                                *)
(***************************************************************************)
PageLimits == {<<>>, <<<<"limit", "0">>>>, <<<<"limit", "1">>>>, <<<<"limit", "2">>>>,
               <<<<"limit", "-1">>>>, <<<<"limit", "-2">>>>, <<<<"limit", "x">>>>}

PageCursors ==
    { <<>>,
      << <<"cursor", "F2">> >>,
      << <<"cursor", "">>, <<"direction", "prev">> >>,
      << <<"cursor", "B2">>, <<"direction", "prev">> >>,
      << <<"cursor", "A3">>, <<"direction", "next">> >>,
      << <<"cursor", "F3">>, <<"direction", "back">> >>,
      << <<"direction", "prev">> >> }

PageFilters == { <<>>, << <<"entity", "acme">>, <<"dim_segment", "retail">> >> }

CursorPageParamSets ==
    {l \o c \o f : l \in PageLimits, c \in PageCursors, f \in PageFilters}

GetFactsWithCursor(params) ==
    /\ LET body == getFactsWithCursor(params, facts)
       IN  resp' = [op |-> "cursorPage", params |-> params, status |-> body.status,
                    body |-> body, fresh |-> TRUE]
    /\ db' = TRUE
    /\ UNCHANGED <<passes, connects, concepts, facts, labels, entities, reports, imports, cur, off, agg>>

NextCursorPage ==
    \/ \E file \in OffsetFiles : ImportFacts(file)
    \/ \E params \in CursorPageParamSets : GetFactsWithCursor(params)

SpecCursorPage == Init /\ [][NextCursorPage]_vars

CursorPageAnswered == resp.op = "cursorPage" /\ resp.status = 200 /\ resp.fresh

\* the facts that satisfy the filters and the key constraint of the request
CursorConstrained ==
    LET cursor    == ParamGet(resp.params, "cursor")
        direction == OrElse(ParamGet(resp.params, "direction"), "next")
    IN  SelectSeq(facts, LAMBDA d :
            /\ Matches(d, CursorQuery(resp.params))
            /\ StrTruthy(cursor) =>
                   IF direction = "next" THEN StrLess(cursor, d.factId)
                   ELSE StrLess(d.factId, cursor))

\* C13: a cursor response holds at most limit rows, hasMore says that more
\* than limit facts satisfy the cursor-constrained predicate, and nextCursor
\* is the key of the last row returned, null for an empty page.
C13_PageShape ==
    CursorPageAnswered =>
        LET pg   == resp.body.pagination
            data == resp.body.data
        IN  /\ Len(data) <= pg.limit.num
            /\ pg.hasMore <=> Len(CursorConstrained) > pg.limit.num
            /\ pg.nextCursor = IF data # <<>> THEN data[Len(data)].factId ELSE Null

-----------------------------------------------------------------------------
(***************************************************************************)
(* GET /api/finance/compare: the facts of the requested entities and       *)
(* metrics, grouped by entity and then by metric.                          *)
(***************************************************************************)
\* url.searchParams.get(key)?.split(",") || []
SplitList(v) == IF v = Null THEN <<>> ELSE Split(v, ",")

SchemeOf(entity) == "scheme:" \o entity

\* the loop of compareEntities over url.searchParams.entries()
RECURSIVE CompareDimFilters(_, _, _)
CompareDimFilters(params, i, query) ==
    IF i > Len(params) THEN query
    ELSE LET key   == params[i][1]
             value == params[i][2]
         IN  IF StartsWith(key, "dim_")
             THEN CompareDimFilters(params, i + 1,
                      SetPath(query, DimPrefix \o Substring(key, 4), Eq(value)))
             ELSE CompareDimFilters(params, i + 1, query)

CompareQuery(params) ==
    LET entityList == SplitList(ParamGet(params, "entities"))
        metrics    == SplitList(ParamGet(params, "metrics"))
        year       == ParamGet(params, "year")
        quarter    == ParamGet(params, "quarter")
        q1 == SetPath(SetPath(EmptyQuery, "dimensions.entity",
                              In({SchemeOf(e) : e \in Range(entityList)})),
                      "dimensions.concept", In(Range(metrics)))
        q2 == IF StrTruthy(year) THEN SetPath(q1, "year", Eq(year)) ELSE q1
        q3 == IF StrTruthy(quarter) THEN SetPath(q2, "quarter", Eq(quarter)) ELSE q2
    IN  CompareDimFilters(params, 1, q3)

\* the element of a metric array for one fact
CompareItem(fact) ==
    [value |-> NumericOrValue(fact), period |-> FieldOf(fact, "dimensions.period"),
     unit |-> FieldOf(fact, "dimensions.unit"), year |-> FieldOf(fact, "year"),
     quarter |-> FieldOf(fact, "quarter")]

\* a metric array that keeps the first fact only
CompareItems_FirstOnly(metricFacts) == <<CompareItem(metricFacts[1])>>

\* metricFacts.map(fact => ({...}))
CompareItems(metricFacts) == [i \in 1..Len(metricFacts) |-> CompareItem(metricFacts[i])]

\* comparisonData[entity]
CompareEntry(found, entity, metrics) ==
    LET entityFacts == SelectSeq(found, LAMBDA f : f.dimensions.entity = SchemeOf(entity))
        metricFacts(metric) ==
            SelectSeq(entityFacts, LAMBDA f : f.dimensions.concept = metric)
    IN  [metric \in {m \in Range(metrics) : Len(metricFacts(m)) > 0} |->
            CompareItems(metricFacts(metric))]

compareEntities(params, coll) ==
    LET entityList == SplitList(ParamGet(params, "entities"))
        metrics    == SplitList(ParamGet(params, "metrics"))
        found      == Find(coll, CompareQuery(params))
    IN  IF Len(entityList) = 0
        THEN [op |-> "compare", status |-> 400, error |-> "At least one entity is required",
              params |-> params, fresh |-> TRUE]
        ELSE IF Len(metrics) = 0
        THEN [op |-> "compare", status |-> 400, error |-> "At least one metric is required",
              params |-> params, fresh |-> TRUE]
        ELSE [op |-> "compare", status |-> 200,
              data |-> [entity \in Range(entityList) |-> CompareEntry(found, entity, metrics)],
              metrics |-> metrics, entities |-> entityList,
              params |-> params, fresh |-> TRUE]

CompareParamSets ==
    { <<>>,
      << <<"entities", "ACME">> >>,
      << <<"metrics", "ifrs-full_Assets">> >>,
      << <<"entities", "ACME,Beta">>, <<"metrics", "ifrs-full_Assets,ifrs-full_Equity">> >>,
      << <<"entities", "ACME">>, <<"metrics", "ifrs-full_CurrentAssets">>,
         <<"year", "2024">> >>,
      << <<"entities", "ACME,ACME,Nobody">>,
         <<"metrics", "ifrs-full_Assets,ifrs-full_Assets,ifrs-full_Revenue">>,
         <<"quarter", "">> >>,
      << <<"entities", "">>, <<"metrics", "ifrs-full_Assets">> >>,
      << <<"entities", "Beta,ACME">>, <<"metrics", "">> >>,
      << <<"entities", "ACME">>, <<"metrics", "ifrs-full_Assets">>,
         <<"dim_segment", "retail">> >>,
      << <<"entities", "ACME,Beta">>, <<"metrics", "ifrs-full_Assets">>,
         <<"dim_entity", "scheme:Beta">> >>,
      << <<"entities", "ACME">>, <<"metrics", "ifrs-full_Assets,ifrs-full_Equity">>,
         <<"dim_concept", "ifrs-full_Equity">>, <<"quarter", "1">> >>,
      << <<"entities", "ACME">>, <<"metrics", "ifrs-full_Assets">>,
         <<"dim_segment", "wholesale">>, <<"dim_segment", "retail">> >> }

CompareEntities(params) ==
    /\ resp' = compareEntities(params, facts)
    /\ db' = TRUE
    /\ UNCHANGED <<passes, connects, concepts, facts, labels, entities, reports, imports, cur, off, agg>>

NextCompare ==
    \/ \E file \in FinFiles : ImportFacts(file)
    \/ \E params \in CompareParamSets : CompareEntities(params)

SpecCompare == Init /\ [][NextCompare]_vars

CompareAnswered == resp.op = "compare" /\ resp.status = 200 /\ resp.fresh

\* the fact matches the request for the pair (entity, metric): it is of the
\* entity and the metric, of the year and quarter when given, and it satisfies
\* the dim_ parameters (a dim_ key given twice constrains by its last value)
CompareMatches(fact, entity, metric) ==
    /\ FieldOf(fact, "dimensions.entity") = SchemeOf(entity)
    /\ FieldOf(fact, "dimensions.concept") = metric
    /\ StrTruthy(ParamGet(resp.params, "year")) => fact.year = ParamGet(resp.params, "year")
    /\ StrTruthy(ParamGet(resp.params, "quarter"))
           => fact.quarter = ParamGet(resp.params, "quarter")
    /\ \A i \in 1..Len(resp.params) :
           (/\ StartsWith(resp.params[i][1], "dim_")
            /\ \A j \in (i + 1)..Len(resp.params) : resp.params[j][1] # resp.params[i][1])
               => FieldOf(fact, DimPrefix \o Substring(resp.params[i][1], 4))
                    = resp.params[i][2]

PairFacts(entity, metric) ==
    SelectSeq(facts, LAMBDA f : CompareMatches(f, entity, metric))

\* C14: a comparison has an entry for every requested entity; the entry has a
\* key for a requested metric exactly when a fact matches the pair, and then
\* the array holds one element per matching fact, in storage order.
C14_CompareGroups ==
    CompareAnswered =>
        LET es == Range(SplitList(ParamGet(resp.params, "entities")))
            ms == Range(SplitList(ParamGet(resp.params, "metrics")))
        IN  /\ DOMAIN resp.data = es
            /\ \A e \in es :
                   /\ DOMAIN resp.data[e] \subseteq ms
                   /\ \A m \in ms :
                          IF PairFacts(e, m) = <<>> THEN m \notin DOMAIN resp.data[e]
                          ELSE /\ m \in DOMAIN resp.data[e]
                               /\ resp.data[e][m] =
                                      [i \in 1..Len(PairFacts(e, m)) |->
                                          CompareItem(PairFacts(e, m)[i])]

\* a comparison with a pair of several facts, a pair without a fact and an
\* entity without any fact
C14_Witness ==
    /\ CompareAnswered
    /\ \E e \in DOMAIN resp.data : \E m \in DOMAIN resp.data[e] : Len(resp.data[e][m]) >= 2
    /\ \E e \in DOMAIN resp.data : DOMAIN resp.data[e] = {}
    /\ \E e \in DOMAIN resp.data :
           /\ DOMAIN resp.data[e] # {}
           /\ \E m \in Range(resp.metrics) : m \notin DOMAIN resp.data[e]

-----------------------------------------------------------------------------
(***************************************************************************)
(* GET /api/finance/trends: the facts of an entity pivoted into one record *)
(* per year-quarter, sorted, cut to the most recent periods, with growth.  *)
(* A period record keeps its dynamic keys <concept>, <concept>_label and   *)
(* <concept>_growth in the maps values, labels and growth.                 *)
(***************************************************************************)
\* the number a string coerces to in a subtraction
ToNumber(s) ==
    IF s = "" THEN Num(0)
    ELSE IF DigitsEnd(s, SignLen(s) + 1) = Len(s) /\ Len(s) > SignLen(s) THEN ParseInt(s)
    ELSE NaN

DefaultTrendMetrics == <<"ifrs-full_Revenue", "ifrs-full_ProfitLoss">>

EmptyMap == [k \in {} |-> Null]

\* fact.numericValue || parseFloat(fact.value)
NumericOrParsed(fact) ==
    IF Has(fact, "numericValue") /\ NumTruthy(fact.numericValue)
    THEN fact.numericValue ELSE ParseFloat(fact.value)

PeriodKey(fact) == fact.year \o "-Q" \o fact.quarter

\* index of the record of the period in periodMap, 0 when it has none
PeriodIndex(periodMap, period) ==
    IF \E i \in 1..Len(periodMap) : periodMap[i].period = period
    THEN CHOOSE i \in 1..Len(periodMap) : periodMap[i].period = period
    ELSE 0

\* the body of facts.forEach for one fact
AddToPeriodMap(periodMap, fact, ls) ==
    LET period  == PeriodKey(fact)
        concept == fact.dimensions.concept
        pm  == IF PeriodIndex(periodMap, period) = 0
               THEN Append(periodMap, [period |-> period, year |-> fact.year,
                                       quarter |-> fact.quarter, values |-> EmptyMap,
                                       labels |-> EmptyMap, growth |-> EmptyMap])
               ELSE periodMap
        i   == PeriodIndex(pm, period)
    IN  [pm EXCEPT ![i].values = (concept :> NumericOrParsed(fact)) @@ @,
                   ![i].labels = (concept :> OrElse(LabelMapLookup(ls, concept), concept)) @@ @]

RECURSIVE BuildPeriodMap(_, _)
BuildPeriodMap(fs, ls) ==
    IF fs = <<>> THEN <<>>
    ELSE AddToPeriodMap(BuildPeriodMap(SubSeq(fs, 1, Len(fs) - 1), ls), fs[Len(fs)], ls)

\* the comparator of periods_data.sort is negative: a goes before b
PeriodBefore(a, b) ==
    LET d == IF a.year # b.year THEN NumSub(ToNumber(a.year), ToNumber(b.year))
             ELSE NumSub(ToNumber(a.quarter), ToNumber(b.quarter))
    IN  ~IsNaN(d) /\ d.num < 0

RECURSIVE InsertPeriod(_, _)
InsertPeriod(sorted, p) ==
    IF sorted = <<>> THEN <<p>>
    ELSE IF PeriodBefore(p, sorted[Len(sorted)])
         THEN Append(InsertPeriod(SubSeq(sorted, 1, Len(sorted) - 1), p), sorted[Len(sorted)])
         ELSE Append(sorted, p)

\* periods_data.sort(...): a stable sort
RECURSIVE SortPeriods(_)
SortPeriods(ps) ==
    IF ps = <<>> THEN <<>>
    ELSE InsertPeriod(SortPeriods(SubSeq(ps, 1, Len(ps) - 1)), ps[Len(ps)])

\* if (periods_data.length > periods) periods_data.slice(length - periods)
RecentPeriods(ps, periods) ==
    IF ~IsNaN(periods) /\ Len(ps) > periods.num
    THEN LET start == Len(ps) - periods.num
         IN  SubSeq(ps, (IF start > Len(ps) THEN Len(ps) ELSE start) + 1, Len(ps))
    ELSE ps

\* the growth of the metrics of current over previous
GrowthOf(current, previous, metrics) ==
    [m \in {x \in Range(metrics) :
                /\ x \in DOMAIN current.values /\ NumTruthy(current.values[x])
                /\ x \in DOMAIN previous.values /\ NumTruthy(previous.values[x])} |->
        NumMul(NumDiv(NumSub(current.values[m], previous.values[m]), previous.values[m]),
               Num(100))]

WithGrowth(ps, metrics) ==
    [i \in 1..Len(ps) |->
        IF i = 1 THEN ps[i] ELSE [ps[i] EXCEPT !.growth = GrowthOf(ps[i], ps[i - 1], metrics)]]

getTrendAnalysis(params, coll, ls) ==
    LET entity  == ParamGet(params, "entity")
        metrics == IF ParamGet(params, "metrics") = Null THEN DefaultTrendMetrics
                   ELSE Split(ParamGet(params, "metrics"), ",")
        periods == ParseInt(OrElse(ParamGet(params, "periods"), "4"))
        found   == Find(coll, SetPath(SetPath(EmptyQuery, "dimensions.entity", Regex(entity)),
                                      "dimensions.concept", In(Range(metrics))))
        enLabels == Find(ls, SetPath(SetPath(EmptyQuery, "conceptId", In(Range(metrics))),
                                     "lang", Eq("en")))
        periods_data == RecentPeriods(SortPeriods(BuildPeriodMap(found, enLabels)), periods)
    IN  IF ~StrTruthy(entity)
        THEN [op |-> "trends", status |-> 400, error |-> "Entity parameter is required",
              params |-> params, fresh |-> TRUE]
        ELSE [op |-> "trends", status |-> 200, data |-> WithGrowth(periods_data, metrics),
              entity |-> entity, metrics |-> metrics,
              labels |-> [i \in 1..Len(metrics) |->
                             OrElse(LabelMapLookup(enLabels, metrics[i]), metrics[i])],
              params |-> params, fresh |-> TRUE]

\* ACME and Beta over several quarters, stored out of chronological order
TrendFileA ==
    << Fin("T01", "Revenue", "scheme:ACME", "500", "2023", "2"),
       Fin("T02", "Revenue", "scheme:ACME", "400", "2023", "1"),
       WithDecimals(Fin("T03", "ProfitLoss", "scheme:ACME", "40", "2023", "1"), 0),
       Fin("T04", "Revenue", "scheme:ACME", "300", "2022", "4"),
       Fin("T05", "Revenue", "scheme:Beta", "90", "2023", "1"),
       Fin("T06", "Assets", "scheme:ACME", "1000", "2021", "1") >>

TrendFileB ==
    << Fin("T07", "Revenue", "scheme:ACME", "700", "2024", "1"),
       Fin("T08", "ProfitLoss", "scheme:ACME", "0", "2023", "3"),
       Fin("T09", "Revenue", "scheme:ACME", "600", "2023", "4"),
       Fin("T10", "Revenue", "scheme:ACME", "550", "2023", "3"),
       Fin("T11", "Revenue", "scheme:ACME", "450", "2023", "2") >>

TrendFiles == {TrendFileA, TrendFileB}

TrendParamSets ==
    { <<>>,
      << <<"entity", "">>, <<"periods", "2">> >>,
      << <<"entity", "acme">> >>,
      << <<"entity", "acme">>, <<"periods", "2">> >>,
      << <<"entity", "acme">>, <<"periods", "1">>, <<"metrics", "ifrs-full_Revenue">> >>,
      << <<"entity", "acme">>, <<"periods", "0">> >>,
      << <<"entity", "acme">>, <<"periods", "-1">> >>,
      << <<"entity", "acme">>, <<"periods", "x">> >>,
      << <<"entity", "acme">>, <<"periods", "">> >>,
      << <<"entity", "scheme">>, <<"periods", "3">>,
         <<"metrics", "ifrs-full_Revenue,ifrs-full_Assets">> >>,
      << <<"entity", "beta">>, <<"periods", "7">> >>,
      << <<"entity", "acme">>, <<"metrics", "">> >> }

GetTrendAnalysis(params) ==
    /\ resp' = getTrendAnalysis(params, facts, labels)
    /\ db' = TRUE
    /\ UNCHANGED <<passes, connects, concepts, facts, labels, entities, reports, imports, cur, off, agg>>

NextTrends ==
    \/ \E file \in TrendFiles : ImportFacts(file)
    \/ ImportLabelsFrom(LabelFile)
    \/ \E params \in TrendParamSets : GetTrendAnalysis(params)

SpecTrends == Init /\ [][NextTrends]_vars

TrendsAnswered == resp.op = "trends" /\ resp.status = 200 /\ resp.fresh

\* the facts of the entity and the metrics of the answered request
TrendFacts ==
    SelectSeq(facts, LAMBDA f :
        /\ RegexI(resp.entity, f.dimensions.entity)
        /\ f.dimensions.concept \in Range(resp.metrics))

\* the distinct year-quarter pairs among them
TrendPeriods == {<<TrendFacts[i].year, TrendFacts[i].quarter>> : i \in 1..Len(TrendFacts)}

\* the pair p is not later than the pair q
NotLater(p, q) ==
    \/ ToNumber(p[1]).num < ToNumber(q[1]).num
    \/ ToNumber(p[1]).num = ToNumber(q[1]).num /\ ToNumber(p[2]).num <= ToNumber(q[2]).num

\* N, the periods parameter of the answered request
TrendN == ParseInt(OrElse(ParamGet(resp.params, "periods"), "4"))

\* C15: the trend result has one record per distinct year-quarter of the
\* matching facts, in chronological order; when more than N periods exist the
\* N most recent are retained, and the result never has more than N records.
C15_TrendPeriods ==
    TrendsAnswered =>
        LET got == {<<resp.data[i].year, resp.data[i].quarter>> : i \in 1..Len(resp.data)}
        IN  /\ got \subseteq TrendPeriods
            /\ Cardinality(got) = Len(resp.data)
            /\ \A i \in 1..(Len(resp.data) - 1) :
                   NotLater(<<resp.data[i].year, resp.data[i].quarter>>,
                            <<resp.data[i + 1].year, resp.data[i + 1].quarter>>)
            /\ \A p \in TrendPeriods \ got : \A q \in got : NotLater(p, q)
            /\ NumGeq(TrendN, Num(Len(resp.data)))
            /\ NumGeq(TrendN, Num(Cardinality(TrendPeriods))) => got = TrendPeriods
            /\ NumLess(TrendN, Num(Cardinality(TrendPeriods)))
                   => Num(Len(resp.data)) = TrendN

-----------------------------------------------------------------------------
(***************************************************************************)
(* The by-id lookups: GET /api/facts/:id, /api/entities/:id and            *)
(* /api/concepts/:id.  The response keeps the collection it was answered   *)
(* from, for the properties below.                                         *)
(***************************************************************************)
\* collection.findOne({key: id}): the first such document, null without one
FindOne(coll, key, id) ==
    LET found == Find(coll, SetPath(EmptyQuery, key, Eq(id)))
    IN  IF found = <<>> THEN Null ELSE found[1]

\* !record, for the result of findOne
NoneFound(coll, key, id) == Find(coll, SetPath(EmptyQuery, key, Eq(id))) = <<>>

\* a lookup that reports an unknown id as a validation error
LookupById_AsValidation(op, what, key, id, coll) ==
    IF ~StrTruthy(id) \/ NoneFound(coll, key, id)
    THEN [op |-> op, status |-> 400, error |-> what \o " ID is required",
          id |-> id, key |-> key, coll |-> coll, fresh |-> TRUE]
    ELSE [op |-> op, status |-> 200, data |-> FindOne(coll, key, id),
          id |-> id, key |-> key, coll |-> coll, fresh |-> TRUE]

\* the body the three handlers share: 400 without an id, 404 without a record
LookupById(op, what, key, id, coll) ==
    IF ~StrTruthy(id)
    THEN [op |-> op, status |-> 400, error |-> what \o " ID is required",
          id |-> id, key |-> key, coll |-> coll, fresh |-> TRUE]
    ELSE IF NoneFound(coll, key, id)
    THEN [op |-> op, status |-> 404, error |-> what \o " not found",
          id |-> id, key |-> key, coll |-> coll, fresh |-> TRUE]
    ELSE [op |-> op, status |-> 200, data |-> FindOne(coll, key, id),
          id |-> id, key |-> key, coll |-> coll, fresh |-> TRUE]

getFactById(id, coll) == LookupById("factById", "Fact", "factId", id, coll)
getEntityById(id, coll) == LookupById("entityById", "Entity", "id", id, coll)
getConceptById(id, coll) == LookupById("conceptById", "Concept", "id", id, coll)

ConceptFile ==
    << [id |-> "ifrs-full_Assets", name |-> "Assets", periodType |-> "instant"],
       [id |-> "ifrs-full_Equity", name |-> "Equity", periodType |-> "instant"],
       [id |-> "ifrs-full_Assets", name |-> "Assets (2022)", periodType |-> "instant"] >>

\* importConcepts: the concepts of the file are appended (insertMany)
ImportConcepts ==
    /\ imports < MaxImports
    /\ concepts' = concepts \o ConceptFile
    /\ imports' = imports + 1
    /\ resp' = [resp EXCEPT !.fresh = FALSE]
    /\ UNCHANGED <<passes, connects, db, facts, labels, entities, reports, cur, off, agg>>

LookupIds == {Null, "", "I1", "A1", "X9", "cursor", "scheme:ACME", "scheme:BETA",
              "scheme:acme", "ifrs-full_Assets", "ifrs-full_Revenue"}

GetFactById(id) ==
    /\ resp' = getFactById(id, facts)
    /\ db' = TRUE
    /\ UNCHANGED <<passes, connects, concepts, facts, labels, entities, reports, imports, cur, off, agg>>

GetEntityById(id) ==
    /\ resp' = getEntityById(id, entities)
    /\ db' = TRUE
    /\ UNCHANGED <<passes, connects, concepts, facts, labels, entities, reports, imports, cur, off, agg>>

GetConceptById(id) ==
    /\ resp' = getConceptById(id, concepts)
    /\ db' = TRUE
    /\ UNCHANGED <<passes, connects, concepts, facts, labels, entities, reports, imports, cur, off, agg>>

LookupFiles == {IdFile, MixFile}

NextLookup ==
    \/ \E file \in LookupFiles : ImportFacts(file)
    \/ ImportConcepts
    \/ ExtractEntities
    \/ \E id \in LookupIds : GetFactById(id)
    \/ \E id \in LookupIds : GetEntityById(id)
    \/ \E id \in LookupIds : GetConceptById(id)

SpecLookup == Init /\ [][NextLookup]_vars

LookupOps == {"factById", "entityById", "conceptById"}

\* a record of the collection the lookup read has the id
IdPresent == \E i \in 1..Len(resp.coll) : FieldOf(resp.coll[i], resp.key) = resp.id

\* C16: a by-id lookup with an id that no record has answers 404 with an
\* error, which is not the 400 of a missing id; an id that a record has
\* answers with such a record and no error.
C16_LookupOutcomes ==
    resp.op \in LookupOps =>
        /\ (StrTruthy(resp.id) /\ ~IdPresent) =>
               /\ resp.status = 404
               /\ "error" \in DOMAIN resp /\ "data" \notin DOMAIN resp
        /\ (StrTruthy(resp.id) /\ IdPresent) =>
               /\ resp.status = 200
               /\ "error" \notin DOMAIN resp
               /\ \E i \in 1..Len(resp.coll) : resp.data = resp.coll[i]
               /\ FieldOf(resp.data, resp.key) = resp.id
        /\ ~StrTruthy(resp.id) => resp.status = 400 /\ "data" \notin DOMAIN resp
        /\ resp.status = 404 => StrTruthy(resp.id)

\* a lookup that misses in a collection with records, and one that finds a
\* record among several with the id
C16_Witness ==
    /\ resp.op = "entityById" /\ resp.coll # <<>>
    /\ resp.status = 404 /\ resp.id = "scheme:acme"

C16_WitnessFound ==
    /\ resp.op = "conceptById" /\ resp.status = 200
    /\ Len(SelectSeq(resp.coll, LAMBDA c : c.id = resp.id)) >= 2

-----------------------------------------------------------------------------
(***************************************************************************)
(* GET /api/finance/metrics.                                               *)
(***************************************************************************)
KeyMetrics ==
    <<"ifrs-full_Revenue", "ifrs-full_ProfitLoss", "ifrs-full_Assets",
      "ifrs-full_Liabilities", "ifrs-full_Equity", "ifrs-full_CashAndCashEquivalents",
      "ifrs-full_OperatingCashFlow">>

MetricsReserved == {"page", "limit", "sort", "order", "entity", "year", "quarter"}

RECURSIVE MetricsDimFilters(_, _, _)
MetricsDimFilters(params, i, query) ==
    IF i > Len(params) THEN query
    ELSE LET key   == params[i][1]
             value == params[i][2]
         IN  IF key \in MetricsReserved THEN MetricsDimFilters(params, i + 1, query)
             ELSE IF StartsWith(key, "dim_")
                  THEN MetricsDimFilters(params, i + 1,
                           SetPath(query, DimPrefix \o Substring(key, 4), Eq(value)))
                  ELSE MetricsDimFilters(params, i + 1, query)

\* one element of metrics
MetricItem(fact, ls) ==
    [concept |-> fact.dimensions.concept,
     label |-> OrElse(LabelMapLookup(ls, fact.dimensions.concept), fact.dimensions.concept),
     value |-> NumericOrValue(fact), period |-> FieldOf(fact, "dimensions.period"),
     unit |-> FieldOf(fact, "dimensions.unit"), year |-> FieldOf(fact, "year"),
     quarter |-> FieldOf(fact, "quarter")]

getFinancialMetrics(params, coll, ls) ==
    LET pg     == withPagination(params)
        st     == withSorting(params)
        entity == ParamGet(params, "entity")
        query  == MetricsDimFilters(params, 1,
                      FinanceQuery(entity, KeyMetrics, ParamGet(params, "year"),
                                   ParamGet(params, "quarter")))
        found  == Limit(Skip(SortBy(Find(coll, query), st.field, st.direction),
                             pg.skip.num), pg.limit.num)
        total  == CountDocuments(coll, query)
        conceptIds == {found[i].dimensions.concept : i \in 1..Len(found)}
        enLabels == Find(ls, SetPath(SetPath(EmptyQuery, "conceptId", In(conceptIds)),
                                     "lang", Eq("en")))
    IN  IF ~StrTruthy(entity)
        THEN [op |-> "metrics", status |-> 400, error |-> "Entity parameter is required",
              params |-> params, fresh |-> TRUE]
        ELSE IF ~IsInt(pg.limit) \/ ~IsInt(pg.skip)
        THEN [op |-> "metrics", status |-> 500, error |-> "Internal server error",
              params |-> params, fresh |-> TRUE]
        ELSE [op |-> "metrics", status |-> 200,
              data |-> [i \in 1..Len(found) |-> MetricItem(found[i], enLabels)],
              entity |-> entity,
              pagination |-> [page |-> pg.page, limit |-> pg.limit, total |-> total,
                              pages |-> MathCeil(NumDiv(Num(total), pg.limit))],
              sort |-> [field |-> st.field,
                        order |-> IF st.direction = 1 THEN "asc" ELSE "desc"],
              params |-> params, fresh |-> TRUE]

-----------------------------------------------------------------------------
(***************************************************************************)
(* A request as the API process serves it: the handler first takes the     *)
(* database handle (connectToDatabase, which opens the connection when the *)
(* process has none), then validates, then calls the collections.  The     *)
(* response keeps the calls into the persistence layer made for it.        *)
(***************************************************************************)
ValidatedOps == {"metrics", "statement", "ratios", "trends", "searchConcepts", "compare"}

\* the answer of the handler of op once it has the handle
Answer(op, params) ==
    CASE op = "metrics"        -> getFinancialMetrics(params, facts, labels)
      [] op = "statement"      -> getFinancialStatement(params, facts, labels)
      [] op = "ratios"         -> calculateFinancialRatios(params, facts)
      [] op = "trends"         -> getTrendAnalysis(params, facts, labels)
      [] op = "searchConcepts" -> searchConceptsByLabel(params, labels)
      [] op = "compare"        -> compareEntities(params, facts)

\* the collection calls of the handler of op, in the order of its code
CollectionCalls(op, params) ==
    CASE op = "metrics" ->
             IF ~StrTruthy(ParamGet(params, "entity")) THEN <<>>
             ELSE IF ~IsInt(withPagination(params).limit)
                     \/ ~IsInt(withPagination(params).skip)
             THEN <<"facts.find">>
             ELSE <<"facts.find", "facts.countDocuments", "labels.find">>
      [] op = "statement" ->
             IF ~StrTruthy(ParamGet(params, "entity"))
                \/ OrElse(ParamGet(params, "type"), "balanceSheet") \notin StatementTypes
             THEN <<>>
             ELSE <<"facts.find", "labels.find">>
      [] op = "ratios" ->
             IF ~StrTruthy(ParamGet(params, "entity")) THEN <<>> ELSE <<"facts.find">>
      [] op = "trends" ->
             IF ~StrTruthy(ParamGet(params, "entity")) THEN <<>>
             ELSE <<"facts.find", "labels.find">>
      [] op = "searchConcepts" ->
             IF ~StrTruthy(ParamGet(params, "text")) THEN <<>> ELSE <<"labels.find">>
      [] op = "compare" ->
             IF Len(SplitList(ParamGet(params, "entities"))) = 0
                \/ Len(SplitList(ParamGet(params, "metrics"))) = 0
             THEN <<>> ELSE <<"facts.find">>

\* connectToDatabase: the calls it makes when the process has / has no handle
ConnectCalls(handle) == IF handle THEN <<>> ELSE <<"client.connect">>

ServeParamSets ==
    { <<>>,
      << <<"entity", "">> >>,
      << <<"entity", "acme">> >>,
      << <<"text", "ab">> >>,
      << <<"entities", "ACME">> >>,
      << <<"metrics", "ifrs-full_Assets">> >>,
      << <<"entities", "ACME,Beta">>, <<"metrics", "ifrs-full_Assets">> >>,
      << <<"entity", "acme">>, <<"limit", "x">>, <<"type", "notes">> >>,
      << <<"entity", "beta">>, <<"text", "aC">>, <<"year", "2024">> >> }

\* the handler of op serves the request; up says whether the store accepts a
\* connection when the handler has to open one
Serve(op, params, up) ==
    /\ IF ~db /\ ~up
       THEN /\ resp' = [op |-> op, status |-> 500, error |-> "Internal server error",
                        params |-> params, warm |-> db,
                        trace |-> ConnectCalls(db), fresh |-> TRUE]
            /\ db' = FALSE
       ELSE /\ resp' = [warm |-> db,
                        trace |-> ConnectCalls(db) \o CollectionCalls(op, params)]
                         @@ Answer(op, params)
            /\ db' = TRUE
    /\ UNCHANGED <<passes, connects, concepts, facts, labels, entities, reports, imports, cur, off, agg>>

NextServe ==
    \/ \E file \in FinFiles : ImportFacts(file)
    \/ ImportLabelsFrom(SearchLabelsA)
    \/ \E op \in ValidatedOps, params \in ServeParamSets, up \in BOOLEAN :
           Serve(op, params, up)

SpecServe == Init /\ [][NextServe]_vars

Served == resp.op \in ValidatedOps /\ "trace" \in DOMAIN resp

\* the request lacks a parameter its operation requires
RequiredMissing ==
    CASE resp.op \in {"metrics", "statement", "ratios", "trends"} ->
             ParamGet(resp.params, "entity") = Null
      [] resp.op = "searchConcepts" -> ParamGet(resp.params, "text") = Null
      [] resp.op = "compare" ->
             \/ ParamGet(resp.params, "entities") = Null
             \/ ParamGet(resp.params, "metrics") = Null

\* C17: a request that lacks a required parameter is answered with the
\* validation error and no call into the persistence layer was made for it.
C17_ValidationFirst ==
    (Served /\ RequiredMissing) => (resp.status = 400 /\ resp.trace = <<>>)

\* the same, for requests served by a process that already held a handle
C17_ValidationWarm ==
    (Served /\ RequiredMissing /\ resp.warm) => (resp.status = 400 /\ resp.trace = <<>>)

-----------------------------------------------------------------------------
(***************************************************************************)
(* Runs of the import against the same store.                              *)
(***************************************************************************)
\* C18: in every reachable state no two stored facts share a factId,
\* whatever files the runs of the import read, the same file twice included.
C18_UniqueFactIds == UniqueIds(facts)

\* the same, for a store that has seen at most one run of the import
C18_UniqueAfterFirstRun == imports <= 1 => UniqueIds(facts)

\* a second run has read the file of the first
C18_Reimported ==
    \E file \in AggFiles : facts = PreprocessFacts(file) \o PreprocessFacts(file)

-----------------------------------------------------------------------------
(***************************************************************************)
(* GET /api/facts with parameters the filter does not know.                *)
(***************************************************************************)
ListFilters ==
    { <<>>,
      << <<"entity", "acme">> >>,
      << <<"dim_segment", "retail">>, <<"year", "2023">> >> }

ListExtras ==
    { <<>>,
      << <<"foo", "bar">> >>,
      << <<"Entity", "beta">>, <<"factId", "A1">> >>,
      << <<"limit", "1">> >>,
      << <<"page", "2">>, <<"limit", "1">> >>,
      << <<"sort", "factId">>, <<"order", "desc">> >>,
      << <<"limit", "x">>, <<"value", "0">> >> }

\* the extras before the filters, and after them
ListParamSets ==
    {e \o f : e \in ListExtras, f \in ListFilters}
        \cup {f \o e : e \in ListExtras, f \in ListFilters}

\* the handler answers a request whose parameters are those of the previous
\* one from the previous response
GetFacts_Memo(params) ==
    /\ resp' = IF resp.op = "facts" /\ resp.params = params
               THEN [resp EXCEPT !.fresh = TRUE]
               ELSE [op |-> "facts", params |-> params, fresh |-> TRUE,
                     selected |-> Ids(Find(facts, FactsQuery(params)))]
                      @@ getFacts(params, facts)
    /\ db' = TRUE
    /\ UNCHANGED <<passes, connects, concepts, facts, labels, entities, reports, imports, cur, off, agg>>

\* the response keeps the ids of the facts the query selects
GetFacts(params) ==
    /\ resp' = [op |-> "facts", params |-> params, fresh |-> TRUE,
                selected |-> Ids(Find(facts, FactsQuery(params)))]
                 @@ getFacts(params, facts)
    /\ db' = TRUE
    /\ UNCHANGED <<passes, connects, concepts, facts, labels, entities, reports, imports, cur, off, agg>>

NextList ==
    \/ \E file \in OffsetFiles : ImportFacts(file)
    \/ \E params \in ListParamSets : GetFacts(params)

SpecList == Init /\ [][NextList]_vars

FactsAnswered == resp.op = "facts" /\ resp.fresh

IsFilterParam(key) ==
    key \in {"entity", "concept", "period", "year", "quarter", "reportId"}
        \/ StartsWith(key, "dim_")

\* the filter parameters of a request, in their order
FilterPart(params) == SelectSeq(params, LAMBDA kv : IsFilterParam(kv[1]))

\* the two requests differ only in parameters that are not filter parameters
SameFilters(p, q) == FilterPart(p) = FilterPart(q)

ReportsTotal(r) == r.status = 200

\* C19: a list-facts request selects the same facts as every request that
\* differs from it only in unrecognized or reserved parameters, the totals of
\* the two responses are equal, and neither is a validation error.
C19_IgnoredParams ==
    FactsAnswered =>
        \A other \in ListParamSets :
            SameFilters(resp.params, other) =>
                LET r == getFacts(other, facts)
                IN  /\ Ids(Find(facts, FactsQuery(other))) = resp.selected
                    /\ resp.status # 400 /\ r.status # 400
                    /\ (ReportsTotal(resp) /\ ReportsTotal(r))
                           => r.pagination.total = resp.pagination.total

\* a request with an unrecognized parameter and a filter that selects some
\* but not all stored facts
C19_Witness ==
    /\ FactsAnswered
    /\ \E i \in 1..Len(resp.params) :
           ~IsFilterParam(resp.params[i][1]) /\ resp.params[i][1] \notin FactsReserved
    /\ FilterPart(resp.params) # <<>>
    /\ resp.status = 200
    /\ resp.pagination.total > 0 /\ resp.pagination.total < Len(facts)

-----------------------------------------------------------------------------
(***************************************************************************)
(* The read operations against one store, in any order.                    *)
(***************************************************************************)
ReadParamSets ==
    { <<>>,
      << <<"entity", "acme">>, <<"text", "ab">>, <<"limit", "2">> >>,
      << <<"entity", "beta">>, <<"year", "2024">>, <<"text", "aC">>,
         <<"entities", "ACME,BETA">>, <<"metrics", "ifrs-full_Assets,ifrs-full_Equity">> >>,
      << <<"entities", "ACME">>, <<"metrics", "ifrs-full_Revenue">>, <<"periods", "1">>,
         <<"entity", "ACME">>, <<"type", "incomeStatement">>, <<"cursor", "A03">> >> }

NextReads ==
    \/ \E file \in FinFiles : ImportFacts(file)
    \/ ImportLabelsFrom(SearchLabelsA)
    \/ \E params \in ReadParamSets : GetFacts(params)
    \/ \E params \in ReadParamSets : GetFactsWithCursor(params)
    \/ \E params \in ReadParamSets : SearchConceptsByLabel(params)
    \/ \E params \in ReadParamSets : GetFinancialStatement(params)
    \/ \E params \in ReadParamSets : CalculateFinancialRatios(params)
    \/ \E params \in ReadParamSets : GetTrendAnalysis(params)
    \/ \E params \in ReadParamSets : CompareEntities(params)

SpecReads == Init /\ [][NextReads]_vars

ReadOps ==
    {"facts", "cursorPage", "searchConcepts", "statement", "ratios", "trends", "compare"}

\* the step is a read request being answered
ReadStep == resp' # resp /\ resp'.fresh /\ resp'.op \in ReadOps

\* the response of the operation to the parameters on the given collections
ResponseOn(op, params, fs, ls) ==
    CASE op = "facts" ->
             [op |-> "facts", params |-> params, fresh |-> TRUE,
              selected |-> Ids(Find(fs, FactsQuery(params)))] @@ getFacts(params, fs)
      [] op = "cursorPage" ->
             LET body == getFactsWithCursor(params, fs)
             IN  [op |-> "cursorPage", params |-> params, status |-> body.status,
                  body |-> body, fresh |-> TRUE]
      [] op = "searchConcepts" -> searchConceptsByLabel(params, ls)
      [] op = "statement" -> getFinancialStatement(params, fs, ls)
      [] op = "ratios" -> calculateFinancialRatios(params, fs)
      [] op = "trends" -> getTrendAnalysis(params, fs, ls)
      [] op = "compare" -> compareEntities(params, fs)

-----------------------------------------------------------------------------
(***************************************************************************)
(* Derivation passes of import processes that run side by side.  A pass    *)
(* reads its groups with one aggregate call and then awaits one updateOne  *)
(* per group; the store answers an upsert by looking for a document with   *)
(* the key and then updating it or inserting one, and the code holds no    *)
(* lock and no unique index that would keep the calls of another process   *)
(* from falling between the two.                                           *)
(***************************************************************************)
MaxPasses == 2

EntityDocs(coll) ==
    LET groups == EntityGroups(coll)
    IN  [g \in 1..Len(groups) |-> EntityDoc(groups[g])]

ReportDocs(coll) ==
    LET groups == ReportGroups(coll)
    IN  [g \in 1..Len(groups) |-> ReportDoc(groups[g])]

\* the key field of the collection a stage writes
StageKey(stage) == IF stage = "entities" THEN "id" ELSE "reportId"

\* extractEntities of a process starts: the aggregate call
StartPass ==
    /\ Len(passes) < MaxPasses
    /\ passes' = Append(passes, [stage |-> "entities", todo |-> EntityDocs(facts),
                                 matched |-> "none", eOut |-> EntityDocs(facts),
                                 rOut |-> <<>>])
    /\ UNCHANGED <<connects, db, concepts, facts, labels, entities, reports, imports, cur,
                   off, resp, agg>>

\* updateOne of pass p looks for a document with the key of its next group
MatchStep(p) ==
    /\ passes[p].stage \in {"entities", "reports"}
    /\ passes[p].todo # <<>>
    /\ passes[p].matched = "none"
    /\ LET key  == StageKey(passes[p].stage)
           coll == IF passes[p].stage = "entities" THEN entities ELSE reports
           doc  == passes[p].todo[1]
       IN  passes' = [passes EXCEPT ![p].matched =
                          IF \E i \in 1..Len(coll) : FieldOf(coll[i], key) = doc[key]
                          THEN "found" ELSE "absent"]
    /\ UNCHANGED <<connects, db, concepts, facts, labels, entities, reports, imports, cur,
                   off, resp, agg>>

\* updateOne of pass p writes: $set on the document found, or the insert of
\* an upsert that found none
WriteStep(p) ==
    /\ passes[p].matched # "none"
    /\ LET stage == passes[p].stage
           key   == StageKey(stage)
           doc   == passes[p].todo[1]
           write(coll) == IF passes[p].matched = "found"
                          THEN UpdateOne(coll, key, doc[key], doc)
                          ELSE Append(coll, doc)
       IN  /\ entities' = IF stage = "entities" THEN write(entities) ELSE entities
           /\ reports' = IF stage = "reports" THEN write(reports) ELSE reports
    /\ passes' = [passes EXCEPT ![p].matched = "none", ![p].todo = Tail(@)]
    /\ UNCHANGED <<connects, db, concepts, facts, labels, imports, cur, off, resp, agg>>

\* the loop of pass p is over: createReports starts with its aggregate call,
\* or the process is done
NextStage(p) ==
    /\ passes[p].stage \in {"entities", "reports"}
    /\ passes[p].todo = <<>>
    /\ passes' = IF passes[p].stage = "entities"
                 THEN [passes EXCEPT ![p].stage = "reports",
                                     ![p].todo = ReportDocs(facts),
                                     ![p].rOut = ReportDocs(facts)]
                 ELSE [passes EXCEPT ![p].stage = "done"]
    /\ UNCHANGED <<connects, db, concepts, facts, labels, entities, reports, imports, cur,
                   off, resp, agg>>

PassFiles == {IdFile, IdFile2}

NextPasses ==
    \/ \E file \in PassFiles : ImportFacts(file)
    \/ StartPass
    \/ \E p \in DOMAIN passes : MatchStep(p)
    \/ \E p \in DOMAIN passes : WriteStep(p)
    \/ \E p \in DOMAIN passes : NextStage(p)

SpecPasses == Init /\ [][NextPasses]_vars

\* every record is the document one pass computed for its key
WholeOutputs ==
    /\ \A i \in 1..Len(entities) :
           \E p \in DOMAIN passes : \E k \in 1..Len(passes[p].eOut) :
               passes[p].eOut[k] = entities[i]
    /\ \A i \in 1..Len(reports) :
           \E p \in DOMAIN passes : \E k \in 1..Len(passes[p].rOut) :
               passes[p].rOut[k] = reports[i]

\* C21: whatever way the steps of overlapping passes fall, there is at most
\* one Entity record per id and one Report record per reportId, and each
\* record is the complete output of one pass.
C21_SerializedPerKey ==
    /\ OnePerKey(entities, "id")
    /\ OnePerKey(reports, "reportId")
    /\ WholeOutputs

\* the part of it that holds: no record mixes the outputs of two passes
C21_NoMix == WholeOutputs

\* two passes were between the lookup and the write of the same key
C21_Overlap ==
    /\ Len(passes) = 2
    /\ passes[1].matched = "absent" /\ passes[2].matched = "absent"
    /\ passes[1].stage = passes[2].stage
    /\ passes[1].todo[1][StageKey(passes[1].stage)]
           = passes[2].todo[1][StageKey(passes[2].stage)]

-----------------------------------------------------------------------------
(***************************************************************************)
(* The tool bridge (mcp-server/src/server.ts).  The arguments of a tool    *)
(* call are JSON values; a handler turns them into the query parameters of *)
(* one request to the API and wraps the outcome of the request.            *)
(***************************************************************************)
\* JSON values of the arguments, and undefined for a name that is not given
ArgStr(str) == [t |-> "string", n |-> NaN, s |-> str, items |-> <<>>, entries |-> <<>>]
ArgNum(x) == [t |-> "number", n |-> x, s |-> "", items |-> <<>>, entries |-> <<>>]
ArgArr(items) == [t |-> "array", n |-> NaN, s |-> "", items |-> items, entries |-> <<>>]
ArgObj(entries) == [t |-> "object", n |-> NaN, s |-> "", items |-> <<>>, entries |-> entries]
Undefined == [t |-> "undefined", n |-> NaN, s |-> "", items |-> <<>>, entries |-> <<>>]

\* const { name } = arguments
RECURSIVE ArgGetFrom(_, _, _)
ArgGetFrom(args, name, i) ==
    IF i > Len(args) THEN Undefined
    ELSE IF args[i][1] = name THEN args[i][2]
    ELSE ArgGetFrom(args, name, i + 1)

ArgGet(args, name) == ArgGetFrom(args, name, 1)

\* if (value): undefined, "", 0 and NaN are falsy
Truthy(v) ==
    CASE v.t = "undefined" -> FALSE
      [] v.t = "string" -> v.s # ""
      [] v.t = "number" -> NumTruthy(v.n)
      [] OTHER -> TRUE

\* Number.prototype.toString for integers and for numbers with one decimal
NumToString(x) ==
    IF IsNaN(x) THEN "NaN"
    ELSE LET sign   == IF x.num < 0 THEN "-" ELSE ""
             tenths == (Abs(x.num) * 10) \div x.den
         IN  IF IsInt(x) THEN sign \o IntToStr(Abs(x.num))
             ELSE sign \o IntToStr(tenths \div 10) \o "." \o IntToStr(tenths % 10)

\* Array.prototype.join
RECURSIVE Join(_, _)
Join(items, sep) ==
    IF items = <<>> THEN ""
    ELSE IF Len(items) = 1 THEN items[1]
    ELSE items[1] \o sep \o Join(Tail(items), sep)

\* the string URLSearchParams.set and a template literal make of a value
StringOf(v) ==
    CASE v.t = "string" -> v.s
      [] v.t = "number" -> NumToString(v.n)
      [] v.t = "array" -> Join(v.items, ",")
      [] v.t = "object" -> "[object Object]"
      [] OTHER -> "undefined"

\* URLSearchParams.set: the value of the first pair of the name, or a new pair
ParamSet(params, name, value) ==
    IF \E i \in 1..Len(params) : params[i][1] = name
    THEN LET i == CHOOSE i \in 1..Len(params) :
                    params[i][1] = name /\ \A j \in 1..(i - 1) : params[j][1] # name
         IN  [params EXCEPT ![i] = <<name, value>>]
    ELSE Append(params, <<name, value>>)

\* if (value) queryParams.set(name, value) for each of the names in turn
RECURSIVE SetIfTruthy(_, _, _)
SetIfTruthy(params, args, names) ==
    IF names = <<>> THEN params
    ELSE LET v == ArgGet(args, names[1])
         IN  SetIfTruthy(IF Truthy(v) THEN ParamSet(params, names[1], StringOf(v))
                         ELSE params,
                         args, Tail(names))

\* for (const [key, value] of Object.entries(dimensions)) set(`dim_${key}`, value)
RECURSIVE SetDimensions(_, _)
SetDimensions(params, entries) ==
    IF entries = <<>> THEN params
    ELSE SetDimensions(ParamSet(params, "dim_" \o entries[1][1], entries[1][2]),
                       Tail(entries))

WithDimensions(params, args) ==
    LET dimensions == ArgGet(args, "dimensions")
    IN  IF Truthy(dimensions) THEN SetDimensions(params, dimensions.entries) ELSE params

\* Array.isArray(v) ? v.join(',') : v, as queryParams.set stores it
JoinedOf(v) == StringOf(v)

Request(route, id, params) == [route |-> route, id |-> id, params |-> params]

handleGetFacts(args) ==
    Request("facts", "",
            WithDimensions(SetIfTruthy(<<>>, args,
                               <<"entity", "concept", "year", "quarter", "limit">>), args))

handleGetFactById(args) == Request("factById", StringOf(ArgGet(args, "id")), <<>>)

handleGetFactsWithCursor(args) ==
    Request("cursorPage", "",
            WithDimensions(SetIfTruthy(<<>>, args,
                               <<"cursor", "direction", "limit", "entity", "concept",
                                 "year", "quarter">>), args))

handleGetFinancialMetrics(args) ==
    Request("metrics", "",
            SetIfTruthy(<< <<"entity", StringOf(ArgGet(args, "entity"))>> >>, args,
                        <<"year", "quarter">>))

handleGetFinancialStatement(args) ==
    Request("statement", "",
            SetIfTruthy(<< <<"entity", StringOf(ArgGet(args, "entity"))>> >>, args,
                        <<"type", "year", "quarter">>))

handleCompareEntities(args) ==
    Request("compare", "",
            SetIfTruthy(<< <<"entities", JoinedOf(ArgGet(args, "entities"))>>,
                           <<"metrics", JoinedOf(ArgGet(args, "metrics"))>> >>, args,
                        <<"year", "quarter">>))

handleGetFinancialRatios(args) ==
    Request("ratios", "",
            SetIfTruthy(<< <<"entity", StringOf(ArgGet(args, "entity"))>> >>, args,
                        <<"year", "quarter">>))

handleGetTrendAnalysis(args) ==
    Request("trends", "",
            SetIfTruthy(<< <<"entity", StringOf(ArgGet(args, "entity"))>> >>, args,
                        <<"metrics", "periods">>))

handleGetConceptById(args) == Request("conceptById", StringOf(ArgGet(args, "id")), <<>>)

handleGetConceptLabels(args) ==
    Request("conceptLabels", StringOf(ArgGet(args, "id")),
            SetIfTruthy(<<>>, args, <<"lang", "role">>))

handleSearchConcepts(args) ==
    LET language == ArgGet(args, "language")
        p1 == << <<"text", StringOf(ArgGet(args, "text"))>> >>
        p2 == IF Truthy(language) THEN ParamSet(p1, "lang", StringOf(language)) ELSE p1
    IN  Request("searchConcepts", "", SetIfTruthy(p2, args, <<"minSimilarity">>))

handleGetEntities == Request("entities", "", <<>>)

handleGetEntityById(args) == Request("entityById", StringOf(ArgGet(args, "id")), <<>>)

ToolNames ==
    {"xbrl_getFacts", "xbrl_getFactById", "xbrl_getFactsWithCursor",
     "xbrl_getFinancialMetrics", "xbrl_getFinancialStatement", "xbrl_compareEntities",
     "xbrl_getFinancialRatios", "xbrl_getTrendAnalysis", "xbrl_getConceptById",
     "xbrl_getConceptLabels", "xbrl_searchConcepts", "xbrl_getEntities",
     "xbrl_getEntityById"}

\* the request the handler of the tool sends
RequestOf(name, args) ==
    CASE name = "xbrl_getFacts" -> handleGetFacts(args)
      [] name = "xbrl_getFactById" -> handleGetFactById(args)
      [] name = "xbrl_getFactsWithCursor" -> handleGetFactsWithCursor(args)
      [] name = "xbrl_getFinancialMetrics" -> handleGetFinancialMetrics(args)
      [] name = "xbrl_getFinancialStatement" -> handleGetFinancialStatement(args)
      [] name = "xbrl_compareEntities" -> handleCompareEntities(args)
      [] name = "xbrl_getFinancialRatios" -> handleGetFinancialRatios(args)
      [] name = "xbrl_getTrendAnalysis" -> handleGetTrendAnalysis(args)
      [] name = "xbrl_getConceptById" -> handleGetConceptById(args)
      [] name = "xbrl_getConceptLabels" -> handleGetConceptLabels(args)
      [] name = "xbrl_searchConcepts" -> handleSearchConcepts(args)
      [] name = "xbrl_getEntities" -> handleGetEntities
      [] name = "xbrl_getEntityById" -> handleGetEntityById(args)

\* the words the catch of the handler puts before the message
ErrorPrefix(name) ==
    CASE name = "xbrl_getFacts" -> "Error getting facts: "
      [] name = "xbrl_getFactById" -> "Error getting fact by ID: "
      [] name = "xbrl_getFactsWithCursor" -> "Error getting facts with cursor: "
      [] name = "xbrl_getFinancialMetrics" -> "Error getting financial metrics: "
      [] name = "xbrl_getFinancialStatement" -> "Error getting financial statement: "
      [] name = "xbrl_compareEntities" -> "Error comparing entities: "
      [] name = "xbrl_getFinancialRatios" -> "Error getting financial ratios: "
      [] name = "xbrl_getTrendAnalysis" -> "Error getting trend analysis: "
      [] name = "xbrl_getConceptById" -> "Error getting concept by ID: "
      [] name = "xbrl_getConceptLabels" -> "Error getting concept labels: "
      [] name = "xbrl_searchConcepts" -> "Error searching concepts: "
      [] name = "xbrl_getEntities" -> "Error getting entities: "
      [] name = "xbrl_getEntityById" -> "Error getting entity by ID: "

(***************************************************************************)
(* The API as the bridge reaches it.                                       *)
(***************************************************************************)
\* GET /api/entities
getEntities(coll) == [op |-> "entities", status |-> 200, data |-> coll]

\* GET /api/concepts/:id/labels
getConceptLabels(id, params, ls) ==
    LET lang == ParamGet(params, "lang")
        role == ParamGet(params, "role")
        q1 == SetPath(EmptyQuery, "conceptId", Eq(id))
        q2 == IF StrTruthy(lang) THEN SetPath(q1, "lang", Eq(lang)) ELSE q1
        q3 == IF StrTruthy(role) THEN SetPath(q2, "role", Eq(role)) ELSE q2
    IN  IF ~StrTruthy(id)
        THEN [op |-> "conceptLabels", status |-> 400, error |-> "Concept ID is required"]
        ELSE [op |-> "conceptLabels", status |-> 200, data |-> Find(ls, q3),
              conceptId |-> id]

\* the router: /api/facts/cursor is the cursor listing, not the fact "cursor"
RouteOf(request) ==
    IF request.route = "factById" /\ request.id = "cursor" THEN "cursorPage"
    ELSE request.route

\* the response of the API to the request
Engine(request) ==
    LET route == RouteOf(request)
    IN  CASE route = "facts" -> getFacts(request.params, facts)
          [] route = "cursorPage" -> getFactsWithCursor(request.params, facts)
          [] route = "factById" -> getFactById(request.id, facts)
          [] route = "entityById" -> getEntityById(request.id, entities)
          [] route = "conceptById" -> getConceptById(request.id, concepts)
          [] route = "entities" -> getEntities(entities)
          [] route = "conceptLabels" -> getConceptLabels(request.id, request.params, labels)
          [] OTHER -> Answer(route, request.params)

\* response.ok
Ok(status) == status >= 200 /\ status <= 299

\* JSON.stringify(result, null, 2) as the text of the block
Serialized(body) == [json |-> body]

Message(text) == [message |-> text]

ToolResult(text, isError) ==
    [content |-> <<[type |-> "text", text |-> text]>>, isError |-> isError]

\* what fetchApi makes of the response: the parsed body of a response that
\* is ok; an exception for a status that is not ok or a body that is not JSON
Fetched(response, net) ==
    IF ~Ok(response.status)
    THEN [thrown |-> TRUE,
          message |-> "API error: " \o IntToStr(response.status),
          status |-> response.status]
    ELSE IF net = "garbled"
    THEN [thrown |-> TRUE, message |-> "invalid json response body",
          status |-> response.status]
    ELSE [thrown |-> FALSE, result |-> response, status |-> response.status]

\* the body is returned whatever the status of the response
Fetched_AnyStatus(response, net) ==
    IF net = "garbled"
    THEN [thrown |-> TRUE, message |-> "invalid json response body",
          status |-> response.status]
    ELSE [thrown |-> FALSE, result |-> response, status |-> response.status]

\* fetchApi returns the body whatever the status of the response
fetchApi_AnyStatus(request, net) ==
    IF net = "down" THEN [thrown |-> TRUE, message |-> "fetch failed", status |-> 0]
    ELSE Fetched_AnyStatus(Engine(request), net)

\* fetchApi: an exception for a request that fails, else what the response
\* gives
fetchApi(request, net) ==
    IF net = "down" THEN [thrown |-> TRUE, message |-> "fetch failed", status |-> 0]
    ELSE Fetched(Engine(request), net)

\* the tools whose case or handler reads a property of the arguments before
\* any try of its own
ReadsArguments(name) == name # "xbrl_getEntities"

\* the try and the catch of a handle* function around fetchApi
Wrapped(name, request, fetched) ==
    IF fetched.thrown
    THEN [result |-> ToolResult(Message(ErrorPrefix(name) \o fetched.message), TRUE),
          known |-> TRUE, thrown |-> TRUE, sent |-> TRUE,
          request |-> request, status |-> fetched.status]
    ELSE [result |-> ToolResult(Serialized(fetched.result), FALSE),
          known |-> TRUE, thrown |-> FALSE, sent |-> TRUE,
          request |-> request, status |-> fetched.status,
          payload |-> fetched.result]

\* a handle* function: the request it builds is sent and the outcome wrapped
Handle(name, request, net) == Wrapped(name, request, fetchApi(request, net))

\* the handler of CallToolRequestSchema; call.given is false for a call
\* without arguments
CallTool(call, net) ==
    IF call.name \notin ToolNames
    THEN [result |-> ToolResult(Message("Unknown tool: " \o call.name), TRUE),
          known |-> FALSE, thrown |-> FALSE, sent |-> FALSE, status |-> 0]
    ELSE IF ~call.given /\ ReadsArguments(call.name)
    THEN [result |-> ToolResult(Message("Error: Cannot destructure property"), TRUE),
          known |-> TRUE, thrown |-> TRUE, sent |-> FALSE, status |-> 0]
    ELSE Handle(call.name, RequestOf(call.name, call.args), net)

ToolArgSets ==
    { << <<"text", ArgStr("b")>> >>,
      << <<"entity", ArgStr("acme")>>, <<"id", ArgStr("A01")>>, <<"text", ArgStr("")>>,
         <<"entities", ArgArr(<<"ACME", "BETA">>)>>,
         <<"metrics", ArgArr(<<"ifrs-full_Assets">>)>>, <<"limit", ArgNum(Num(2))>> >>,
      << <<"entity", ArgStr("beta")>>, <<"id", ArgStr("cursor")>>, <<"text", ArgStr("ab")>>,
         <<"entities", ArgStr("ACME")>>, <<"metrics", ArgStr("ifrs-full_Equity")>>,
         <<"year", ArgStr("2023")>>, <<"quarter", ArgStr("")>>,
         <<"limit", ArgNum(Num(0))>>, <<"periods", ArgNum(Num(0))>>,
         <<"minSimilarity", ArgNum(Num(0))>>, <<"cursor", ArgStr("")>>,
         <<"type", ArgStr("notes")>>,
         <<"dimensions", ArgObj(<< <<"segment", "retail">> >>)>> >>,
      << <<"entity", ArgStr("ACME")>>, <<"id", ArgStr("scheme:ACME")>>,
         <<"text", ArgStr("aC")>>, <<"language", ArgStr("es")>>,
         <<"year", ArgNum(Num(2023))>>, <<"quarter", ArgStr("1")>>,
         <<"limit", ArgStr("x")>>, <<"periods", ArgNum(Num(1))>>,
         <<"minSimilarity", ArgNum(Frac(1, 2))>>, <<"cursor", ArgStr("A03")>>,
         <<"direction", ArgStr("next")>>, <<"type", ArgStr("incomeStatement")>> >> }

ToolCalls ==
    [name : ToolNames \cup {"xbrl_dropFacts"}, given : {TRUE}, args : ToolArgSets]
        \cup [name : ToolNames \cup {"xbrl_dropFacts"}, given : {FALSE}, args : {<<>>}]

NetOutcomes == {"ok", "down", "garbled"}

\* a tool call is handled; net is what becomes of the request on the way
HandleCallTool(call, net) ==
    /\ resp' = [op |-> "tool", call |-> call, net |-> net, escaped |-> FALSE,
                fresh |-> TRUE] @@ CallTool(call, net)
    /\ UNCHANGED <<passes, connects, db, concepts, facts, labels, entities, reports,
                   imports, cur, off, agg>>

\* the store after one run of the import script on a facts file without
\* identity facts: no Entity or Report record is derived from it
InitBridge ==
    /\ facts = PreprocessFacts(FinFileA)
    /\ concepts = ConceptFile
    /\ labels = SearchLabelsA
    /\ entities = <<>>
    /\ reports = <<>>
    /\ imports = 1
    /\ cur = NoWalk
    /\ off = NoPaging
    /\ resp = NoResp
    /\ agg = NoAgg
    /\ db = FALSE
    /\ passes = NoPasses
    /\ connects = NoConnects

NextBridge == \E call \in ToolCalls, net \in NetOutcomes : HandleCallTool(call, net)

SpecBridge == InitBridge /\ [][NextBridge]_vars

ToolCalled == resp.op = "tool"

\* the engine answered the request of the call with a success status
EngineSucceeded == resp.sent /\ resp.net # "down" /\ Ok(resp.status)

\* C22: a tool call returns one text block and an isError flag; the flag is
\* false, and the text the serialized payload of the engine, exactly when the
\* tool is known, nothing was thrown and the engine answered with a success
\* status; no exception leaves the handler.
C22_ResultWrapping ==
    ToolCalled =>
        /\ ~resp.escaped
        /\ Len(resp.result.content) = 1
        /\ resp.result.content[1].type = "text"
        /\ resp.result.isError \in BOOLEAN
        /\ resp.result.isError
               <=> (~resp.known \/ resp.thrown \/ ~EngineSucceeded)
        /\ ~resp.result.isError
               => /\ resp.result.content[1].text = Serialized(resp.payload)
                  /\ Ok(resp.payload.status)

\* a call answered with the payload of the engine, and one answered with the
\* error of a request the engine rejected
C22_Witness ==
    /\ ToolCalled /\ ~resp.result.isError
    /\ resp.call.name = "xbrl_getFinancialStatement"
    /\ Len(facts) > 0

C22_WitnessRejected ==
    /\ ToolCalled /\ resp.result.isError
    /\ resp.sent /\ resp.net = "ok" /\ resp.status = 400

-----------------------------------------------------------------------------
(***************************************************************************)
(* What the bridge forwards of the optional arguments.                     *)
(***************************************************************************)
\* the optional arguments of the tool among limit, periods, minSimilarity,
\* year, quarter and cursor
OptionalArgs(name) ==
    CASE name = "xbrl_getFacts" -> {"year", "quarter", "limit"}
      [] name = "xbrl_getFactsWithCursor" -> {"cursor", "limit", "year", "quarter"}
      [] name \in {"xbrl_getFinancialMetrics", "xbrl_getFinancialStatement",
                   "xbrl_compareEntities", "xbrl_getFinancialRatios"} -> {"year", "quarter"}
      [] name = "xbrl_getTrendAnalysis" -> {"periods"}
      [] name = "xbrl_searchConcepts" -> {"minSimilarity"}
      [] OTHER -> {}

Supplied(name) == ArgGet(resp.call.args, name).t # "undefined"

Forwarded(name) ==
    ParamGet(resp.request.params, name) = StringOf(ArgGet(resp.call.args, name))

\* C30: the request of a tool call carries every optional argument the
\* caller supplied, with the value supplied, 0 and the empty string included.
C30_ForwardsSupplied ==
    (ToolCalled /\ resp.sent) =>
        \A name \in OptionalArgs(resp.call.name) : Supplied(name) => Forwarded(name)

\* the same, for the supplied values that are neither 0 nor the empty string
C30_ForwardsTruthy ==
    (ToolCalled /\ resp.sent) =>
        \A name \in OptionalArgs(resp.call.name) :
            Truthy(ArgGet(resp.call.args, name)) => Forwarded(name)

\* a search with minSimilarity 0 reaches the engine without the parameter and
\* is answered with the default threshold
C30_DefaultSubstituted ==
    /\ ToolCalled /\ resp.sent /\ ~resp.result.isError
    /\ resp.call.name = "xbrl_searchConcepts"
    /\ Supplied("minSimilarity")
    /\ ParamGet(resp.request.params, "minSimilarity") = Null

-----------------------------------------------------------------------------
(***************************************************************************)
(* The rows of a cursor page against the cursor and the direction.         *)
(***************************************************************************)
PageCursor == ParamGet(resp.params, "cursor")

PageDirection == OrElse(ParamGet(resp.params, "direction"), "next")

PageKeys == Ids(resp.body.data)

\* the keys of the facts the filters of the request select, cursor aside
FilteredKeys == Ids(Find(facts, CursorQuery(resp.params)))

\* C23: with a cursor every row of a page has a key greater than the cursor
\* (next) or less than it (prev); the rows are in ascending (next) or
\* descending (prev) key order; without a cursor no fact is kept out by its
\* key, and the page starts at the smallest (next) or largest (prev) key.
C23_ConstraintAndOrder ==
    (CursorPageAnswered /\ PageDirection \in {"next", "prev"}) =>
        LET keys == PageKeys
            next == PageDirection = "next"
        IN  /\ StrTruthy(PageCursor) =>
                   \A i \in 1..Len(keys) :
                       IF next THEN StrLess(PageCursor, keys[i])
                       ELSE StrLess(keys[i], PageCursor)
            /\ \A i, j \in 1..Len(keys) :
                   i < j => IF next THEN ~StrLess(keys[j], keys[i])
                            ELSE ~StrLess(keys[i], keys[j])
            /\ (~StrTruthy(PageCursor) /\ keys # <<>>) =>
                   \A k \in 1..Len(FilteredKeys) :
                       IF next THEN ~StrLess(FilteredKeys[k], keys[1])
                       ELSE ~StrLess(keys[1], FilteredKeys[k])

\* a prev page with a cursor that leaves facts on either side of it
C23_Witness ==
    /\ CursorPageAnswered /\ PageDirection = "prev" /\ StrTruthy(PageCursor)
    /\ Len(resp.body.data) > 0
    /\ \E k \in 1..Len(FilteredKeys) : StrLess(PageCursor, FilteredKeys[k])

\* a first page in ascending order with more than one row
C23_WitnessFirstPage ==
    /\ CursorPageAnswered /\ PageDirection = "next" /\ PageCursor = Null
    /\ Len(resp.body.data) > 1

-----------------------------------------------------------------------------
(***************************************************************************)
(* createReports: what a pass leaves in the Report collection              *)
(***************************************************************************)
\* the positions of the facts that carry a report identifier
Reported(fs) == {k \in 1..Len(fs) : FieldOf(fs[k], "reportId") # Null}

\* the positions of the facts of one report, and of its duration-period facts
FactsOfReport(fs, rid) == {k \in Reported(fs) : FieldOf(fs[k], "reportId") = rid}

DurationsOfReport(fs, rid) ==
    {k \in FactsOfReport(fs, rid) :
        /\ StrTruthy(FieldOf(fs[k], "dimensions.period"))
        /\ Includes(fs[k].dimensions.period, "/")}

PeriodStart(f) == Part(Split(f.dimensions.period, "/"), 1)
PeriodEnd(f)   == Part(Split(f.dimensions.period, "/"), 2)

CurrencyFacts(fs, rid) ==
    {k \in FactsOfReport(fs, rid) : FieldOf(fs[k], "dimensions.concept") = CurrencyConcept}

\* the record rs[i] describes the facts of its report in fs
DescribesReport(fs, r) ==
    LET rid   == r.reportId
        durs  == DurationsOfReport(fs, rid)
        money == CurrencyFacts(fs, rid)
    IN  /\ r.factCount = Cardinality(FactsOfReport(fs, rid))
        /\ IF durs = {}
           THEN r.startDate = Null /\ r.endDate = Null
           ELSE /\ \E k \in durs : r.startDate = PeriodStart(fs[k])
                /\ \A k \in durs : ~StrLess(PeriodStart(fs[k]), r.startDate)
                /\ \E k \in durs : r.endDate = PeriodEnd(fs[k])
                /\ \A k \in durs : ~StrLess(r.endDate, PeriodEnd(fs[k]))
        /\ IF money = {}
           THEN r.currency = Null
           ELSE r.currency = fs[CHOOSE k \in money : \A j \in money : k <= j].value

ReportsDescribe(fs, rs) ==
    /\ \A k \in Reported(fs) :
          Cardinality({i \in 1..Len(rs) : rs[i].reportId = fs[k].reportId}) = 1
    /\ \A i \in 1..Len(rs) :
          /\ FactsOfReport(fs, rs[i].reportId) # {}
          /\ DescribesReport(fs, rs[i])

\* C24: a createReports pass leaves exactly one Report record per distinct
\* reportId among the facts; its factCount is the number of facts of the
\* report, its startDate and endDate are the least start and the greatest end
\* over the duration-period facts of the report (null when there is none), and
\* its currency is the value of the first presentation-currency fact of the report
\* (null when there is none).
C24_ReportsOfPass ==
    [][agg'.rRuns = agg.rRuns + 1 => ReportsDescribe(facts', reports')]_vars

\* a pass has described a report whose bounds come from different facts, a
\* report without duration periods and a report with a currency
C24_Witness ==
    /\ agg.rRuns >= 1
    /\ ReportsDescribe(facts, reports)
    /\ \E i \in 1..Len(reports) :
          /\ reports[i].factCount >= 3
          /\ reports[i].currency # Null
          /\ reports[i].startDate = "2023-01-01" /\ reports[i].endDate = "2023-06-30"
    /\ \E i \in 1..Len(reports) : reports[i].startDate = Null /\ reports[i].endDate = Null
    /\ \E i \in 1..Len(reports) :
          /\ reports[i].startDate = "2022-10-01" /\ reports[i].endDate = "2023-03-31"

-----------------------------------------------------------------------------
(***************************************************************************)
(* GET /api/facts and GET /api/facts/cursor with the same filter           *)
(* parameters: empty values and keys given more than once included.        *)
(***************************************************************************)
FilterParamSets ==
    { <<>>,
      << <<"entity", "acme">> >>,
      << <<"entity", "">>, <<"concept", "">> >>,
      << <<"year", "">> >>,
      << <<"quarter", "">>, <<"entity", "beta">> >>,
      << <<"year", "2023">>, <<"year", "2024">> >>,
      << <<"entity", "acme">>, <<"entity", "beta">> >>,
      << <<"quarter", "2">>, <<"dim_segment", "retail">> >>,
      << <<"dim_segment", "retail">>, <<"dim_segment", "wholesale">> >>,
      << <<"dim_segment", "">> >> }

NextFilters ==
    \/ \E file \in OffsetFiles : ImportFacts(file)
    \/ \E params \in FilterParamSets : GetFacts(params)
    \/ \E params \in FilterParamSets : GetFactsWithCursor(params)

SpecFilters == Init /\ [][NextFilters]_vars

IdSet(docs) == {docs[i].factId : i \in 1..Len(docs)}

\* the facts the filter of each strategy selects for the answered request
OffsetSelects == IdSet(Find(facts, FactsQuery(resp.params)))
CursorSelects == IdSet(Find(facts, CursorQuery(resp.params)))

\* the answered request gives no key twice and no empty value
PlainParams(params) ==
    /\ \A i, j \in 1..Len(params) : params[i][1] = params[j][1] => i = j
    /\ \A i \in 1..Len(params) : params[i][2] # ""

\* C25: for every set of filter parameters, empty values and repeated keys
\* included, the facts an offset response is taken from are the facts the
\* cursor filter selects, and the facts of a cursor response without cursor
\* are the facts the offset filter selects.
C25_SameFilter ==
    /\ (resp.op = "facts" /\ resp.fresh) =>
           Range(resp.selected) = CursorSelects
    /\ (CursorPageAnswered /\ ~resp.body.pagination.hasMore) =>
           IdSet(resp.body.data) = OffsetSelects

\* the part of it that holds: the two filters agree on parameter sets that
\* give no key twice and no empty value
C25_SameOnPlain ==
    (resp.op \in {"facts", "cursorPage"} /\ PlainParams(resp.params)) => C25_SameFilter

\* the strategies answered a request with an empty year differently
C25_Differs ==
    /\ CursorPageAnswered
    /\ ParamGet(resp.params, "year") = ""
    /\ resp.body.data # <<>>
    /\ OffsetSelects = {}

-----------------------------------------------------------------------------
(***************************************************************************)
(* GET /api/facts/cursor: a response that announces more rows              *)
(***************************************************************************)
\* C26: in every cursor response, whatever limit the endpoint accepted,
\* hasMore = true comes with a nextCursor that is not null.
C26_MoreHasCursor ==
    CursorPageAnswered =>
        (resp.body.pagination.hasMore => resp.body.pagination.nextCursor # Null)

\* the part of it that holds: responses to a limit of at least 1
C26_MoreHasCursorFromOne ==
    (CursorPageAnswered /\ resp.body.pagination.limit.num >= 1) =>
        (resp.body.pagination.hasMore => resp.body.pagination.nextCursor # Null)

\* a response to limit=0 announces more rows, returns none and no cursor
C26_ZeroLimit ==
    /\ CursorPageAnswered
    /\ ParamGet(resp.params, "limit") = "0"
    /\ resp.body.pagination.hasMore
    /\ resp.body.data = <<>>
    /\ resp.body.pagination.nextCursor = Null

-----------------------------------------------------------------------------
(***************************************************************************)
(* A traversal that is left to finish: the client starts a new walk only   *)
(* when the previous one is over or was given up after MaxRequests         *)
(* requests, and the collection is not written while a walk is under way.  *)
(***************************************************************************)
WalkUnderWay == cur.running /\ cur.hasMore /\ cur.requests < MaxRequests

WalkStart(params) ==
    /\ ~WalkUnderWay
    /\ CursorStart(params)

QuietImport(file) ==
    /\ ~WalkUnderWay
    /\ ImportFacts(file)

NextTraversal ==
    \/ \E file \in ListFiles : QuietImport(file)
    \/ \E params \in CursorParamSets : WalkStart(params)
    \/ CursorNext

\* the client keeps requesting while hasMore is true, and every request is
\* answered: weak fairness of CursorNext, WF_vars(CursorNext), written with
\* WalkUnderWay, the condition under which CursorNext is enabled
FairWalk == []<>(~WalkUnderWay) \/ []<><<CursorNext>>_vars

SpecTraversal == Init /\ [][NextTraversal]_vars /\ FairWalk

WalkLimit == ParseInt(OrElse(ParamGet(cur.params, "limit"), "100"))

\* the number of facts the filters of the walk select
WalkMatching == Len(Find(facts, CursorQuery(cur.params)))

CeilDiv(n, k) == (n + k - 1) \div k

\* a walk with a limit of at least 1 over facts with unique factIds
Traversing ==
    /\ cur.running
    /\ UniqueIds(facts)
    /\ IsInt(WalkLimit) /\ WalkLimit.num >= 1

\* C27 as stated, its bound: as long as the traversal has not reached
\* hasMore = false, fewer than ceil(n/limit) requests were made.
C27_WithinCeil ==
    (Traversing /\ cur.hasMore) => cur.requests < CeilDiv(WalkMatching, WalkLimit.num)

\* C27 amended: the traversal reaches hasMore = false, and as long as it has
\* not, fewer than max(1, ceil(n/limit)) requests were made (a traversal of
\* no matching fact takes one request).
C27_Terminates ==
    /\ [](Traversing /\ cur.hasMore =>
            cur.requests < IF WalkMatching = 0 THEN 1
                           ELSE CeilDiv(WalkMatching, WalkLimit.num))
    /\ (Traversing ~> ~cur.hasMore)

\* a traversal of a whole number of full pages ended with its last full page
C27_Witness ==
    /\ Traversing /\ ~cur.hasMore
    /\ cur.requests >= 2
    /\ WalkMatching = cur.requests * WalkLimit.num

\* a traversal of no matching fact ended with its first response
C27_WitnessEmpty ==
    /\ Traversing /\ ~cur.hasMore
    /\ facts # <<>> /\ WalkMatching = 0
    /\ cur.requests = 1

-----------------------------------------------------------------------------
(***************************************************************************)
(* A traversal of GET /api/facts/cursor while the import script appends    *)
(* facts with new factIds between the page requests.                       *)
(***************************************************************************)
\* facts whose keys follow those of FiveFile
LateFile ==
    << RawFact("F6", Equity, "scheme:ACME", Q1, "60", "2023", "1", "ACME_2023_1"),
       RawFact("G1", Assets, "scheme:ACME", "2023-03-31", "70", "2023", "1", "ACME_2023_1") >>

AppendFiles == {FiveFile, MixFile, LateFile}

AppendLimits == {<<>>, <<<<"limit", "1">>>>, <<<<"limit", "2">>>>, <<<<"limit", "3">>>>,
                 <<<<"limit", "-1">>>>}

AppendFilters == { <<>>, << <<"entity", "acme">> >> }

AppendParamSets == {l \o f : l \in AppendLimits, f \in AppendFilters}

\* insertMany of a file none of whose factIds is stored yet
FreshImport(file) ==
    /\ UniqueIds(facts \o PreprocessFacts(file))
    /\ ImportFacts(file)

\* the walk remembers how many facts were stored when it began
TraversalStart(params) ==
    /\ ~WalkUnderWay
    /\ cur' = [running |-> TRUE, params |-> params, cursor |-> Null, pages |-> <<>>,
               hasMore |-> TRUE, requests |-> 0, stable |-> TRUE, status |-> 0,
               began |-> Len(facts)]
    /\ UNCHANGED <<passes, connects, db, concepts, facts, labels, entities, reports, imports, off, resp, agg>>

NextAppend ==
    \/ \E file \in AppendFiles : FreshImport(file)
    \/ \E params \in AppendParamSets : TraversalStart(params)
    \/ CursorNext

SpecAppend == Init /\ [][NextAppend]_vars

\* the factIds the walk returned so far, page after page
Returned == Ids(Flatten(cur.pages))

TimesReturned(id) == Cardinality({i \in 1..Len(Returned) : Returned[i] = id})

\* the facts stored when the walk began that its filters select
MatchedAtStart ==
    {k \in 1..cur.began : Matches(facts[k], CursorQuery(cur.params))}

AppendSafe ==
    /\ \A i \in 1..Len(Returned) : TimesReturned(Returned[i]) = 1
    /\ (cur.requests > 0 /\ ~cur.hasMore) =>
           \A k \in MatchedAtStart : TimesReturned(facts[k].factId) = 1

\* C28: while facts with new factIds are appended between the page requests,
\* a traversal returns no factId in two pages, and once it has reached
\* hasMore = false it has returned every matching fact stored when it began
\* exactly once.
C28_AppendTraversal ==
    cur.running => AppendSafe

\* the part of it that holds: traversals with a limit of at least 1
C28_AppendTraversalFromOne ==
    (cur.running /\ IsInt(WalkLimit) /\ WalkLimit.num >= 1) => AppendSafe

\* a traversal of several pages ended after facts were appended under it, some
\* of them returned and some not
C28_AppendedUnderWalk ==
    /\ cur.running /\ ~cur.hasMore /\ ~cur.stable
    /\ cur.requests >= 2
    /\ WalkLimit.num >= 1
    /\ MatchedAtStart # {}
    /\ \E k \in cur.began + 1 .. Len(facts) : TimesReturned(facts[k].factId) = 1
    /\ AppendSafe

\* a traversal with limit=-1 returned a fact in two pages
C28_NegativeLimit ==
    /\ cur.running /\ WalkLimit.num = -1
    /\ \E i \in 1..Len(Returned) : TimesReturned(Returned[i]) = 2

-----------------------------------------------------------------------------
(***************************************************************************)
(* connectToDatabase called by requests that overlap: a call reads the     *)
(* shared handle, and when it is unset creates a client and suspends at    *)
(* client.connect until the connection is made or fails.                   *)
(***************************************************************************)
MaxCallers == 4

\* if (db) return db; const client = new MongoClient(); await client.connect(...)
connectToDatabase ==
    /\ Len(connects.callers) < MaxCallers
    /\ connects' =
           [connects EXCEPT !.callers =
               Append(@, IF db THEN [stage |-> "returned", handle |-> connects.current]
                          ELSE [stage |-> "connecting", handle |-> 0])]
    /\ UNCHANGED <<passes, db, concepts, facts, labels, entities, reports, imports, cur, off,
                   resp, agg>>

\* the connect of caller i resolves: db = client.database(DB_NAME); return db
\* (the handle made from the client of caller i is numbered i)
ConnectResolved(i) ==
    /\ connects.callers[i].stage = "connecting"
    /\ db' = TRUE
    /\ connects' = [opened |-> connects.opened + 1,
                    current |-> i,
                    callers |-> [connects.callers EXCEPT
                                    ![i] = [stage |-> "returned", handle |-> i]]]
    /\ UNCHANGED <<passes, concepts, facts, labels, entities, reports, imports, cur, off,
                   resp, agg>>

\* the connect of caller i rejects: the error is logged and thrown again
ConnectRejected(i) ==
    /\ connects.callers[i].stage = "connecting"
    /\ connects' = [connects EXCEPT !.callers[i].stage = "failed"]
    /\ UNCHANGED <<passes, db, concepts, facts, labels, entities, reports, imports, cur, off,
                   resp, agg>>

NextConnect ==
    \/ connectToDatabase
    \/ \E i \in 1..Len(connects.callers) : ConnectResolved(i)
    \/ \E i \in 1..Len(connects.callers) : ConnectRejected(i)

SpecConnect == Init /\ [][NextConnect]_vars

Callers(stage) == {i \in 1..Len(connects.callers) : connects.callers[i].stage = stage}

\* C29: however the calls interleave, at most one client connection is opened
\* and all callers that were answered hold the same handle; and as long as no
\* connect has succeeded the handle is unset.
C29_InitializedOnce ==
    /\ connects.opened <= 1
    /\ \A i, j \in Callers("returned") :
           connects.callers[i].handle = connects.callers[j].handle
    /\ (connects.opened = 0 => ~db /\ connects.current = 0)

\* the part of it that holds: the handle is unset until a connect succeeds,
\* whatever failed before, and every answered caller holds the handle of a
\* client that was connected
C29_UnsetUntilConnected ==
    /\ connects.opened = 0 <=> ~db
    /\ ~db <=> connects.current = 0
    /\ \A i \in Callers("returned") : connects.callers[i].handle \in Callers("returned")
    /\ \A i \in Callers("failed") : connects.callers[i].handle = 0

\* two calls were suspended at connect together and both were answered
C29_TwoClients ==
    /\ connects.opened = 2
    /\ \E i, j \in Callers("returned") :
           connects.callers[i].handle # connects.callers[j].handle

\* a call made after a failed connect attempted the connection again
C29_Retried ==
    \E i, j \in 1..Len(connects.callers) :
        /\ i < j
        /\ connects.callers[i].stage = "failed"
        /\ connects.callers[j].stage = "returned" /\ connects.callers[j].handle = j
        /\ connects.opened = 1

====
